---- MODULE Spec2Model ----
(***************************************************************************)
(* A model of the 'david' in-memory authentication service (auth.py), of   *)
(* its Google sign-in provider (google_auth.py) and of the helpers they    *)
(* use.  Strings the code inspects character by character (usernames,     *)
(* e-mail addresses, passwords) are sequences of one-character strings.    *)
(* Cryptographic primitives (PBKDF2, HMAC-SHA256) and base64url are        *)
(* symbolic and collision free; random draws are fresh values.             *)
(***************************************************************************)
EXTENDS Integers, Sequences, FiniteSets, TLC

VARIABLES
    \* ---- InMemoryUserRepository ----
    users,          \* the User objects, by object identity (= user id)
    byName,         \* _users: normalized username -> User object
    byId,           \* _users_by_id: id -> User object
    byEmail,        \* _users_by_email: lower-cased email -> User object
    nextId,         \* _next_user_id
    \* ---- RateLimiter, AuditLog, Metrics, clock, entropy ----
    buckets,        \* RateLimiter._buckets: key -> TokenBucket
    now,            \* wall clock, in seconds (Clock.now and time.time)
    audit,          \* AuditLog._events
    metrics,        \* AuthService.metrics
    entropy,        \* number of random draws made so far
    \* ---- what callers hold and saw ----
    issuedAccess,   \* access tokens handed out, with the claims they were built from
    issuedRefresh,  \* refresh tokens handed out
    last,           \* the last call: operation, arguments, outcome
    scen,           \* progress of the register -> login -> verify scenario
    pre,            \* the service as it was when the last call was made
    \* ---- TokenCodec exercised on its own ----
    cClaims, cToken, cOut,
    \* ---- RateLimiter exercised on its own ----
    rlBuckets, rlNow, rlHist,
    \* ---- AuditLog exercised on its own; threads sharing one service ----
    al, th,
    assigned,       \* every value _next_id has returned, in the order returned
    took,           \* milliseconds the last login or register_user call ran
    attempts,       \* login calls made so far by each (username, origin) pair
    \* ---- Ledger ----
    ledger          \* Ledger: _balances (user -> int) and _transactions

svcVars == <<users, byName, byId, byEmail, nextId, buckets, now, audit, metrics,
             entropy, issuedAccess, issuedRefresh, last, scen, pre>>
codecVars == <<cClaims, cToken, cOut>>
rlVars == <<rlBuckets, rlNow, rlHist>>
auxVars == <<al, th, assigned, took, attempts, ledger>>
vars == <<svcVars, codecVars, rlVars, auxVars>>

(***************************************************************************)
(* Characters and strings                                                  *)
(***************************************************************************)
UpperSeq == <<"A","B","C","D","E","F","G","H","I","J","K","L","M",
              "N","O","P","Q","R","S","T","U","V","W","X","Y","Z">>
LowerSeq == <<"a","b","c","d","e","f","g","h","i","j","k","l","m",
              "n","o","p","q","r","s","t","u","v","w","x","y","z">>
UpperChars == {UpperSeq[i] : i \in 1..Len(UpperSeq)}
LowerChars == {LowerSeq[i] : i \in 1..Len(LowerSeq)}
DigitChars == {"0","1","2","3","4","5","6","7","8","9"}
SpaceChars == {" ", "\t", "\n"}

lower_char(c) ==
    IF c \in UpperChars
    THEN LowerSeq[CHOOSE i \in 1..Len(UpperSeq) : UpperSeq[i] = c]
    ELSE c

str_lower(s) == [i \in 1..Len(s) |-> lower_char(s[i])]

RECURSIVE lstrip(_)
lstrip(s) == IF s # <<>> /\ Head(s) \in SpaceChars THEN lstrip(Tail(s)) ELSE s

RECURSIVE rstrip(_)
rstrip(s) ==
    IF s # <<>> /\ s[Len(s)] \in SpaceChars THEN rstrip(SubSeq(s, 1, Len(s) - 1)) ELSE s

str_strip(s) == rstrip(lstrip(s))

NotSpace(c) == c \notin SpaceChars

contains(s, sub) ==
    \E i \in 0..(Len(s) - Len(sub)) : SubSeq(s, i + 1, i + Len(sub)) = sub

\* re.sub(r"\s+", "", name.strip().lower())
_norm_username(name) == SelectSeq(str_lower(str_strip(name)), NotSpace)

(***************************************************************************)
(* Password policy                                                         *)
(***************************************************************************)
MinPasswordLen == 10
LengthCap == 16

WeakPatterns == { <<"p","a","s","s","w","o","r","d">>, <<"1","2","3","4">>,
                  <<"q","w","e","r">>, <<"a","b","c","d">> }

has_class(pw, S) == \E i \in 1..Len(pw) : pw[i] \in S
has_symbol(pw) == \E i \in 1..Len(pw) : pw[i] \notin (LowerChars \cup UpperChars \cup DigitChars)

variety(pw) ==
      (IF has_class(pw, LowerChars) THEN 1 ELSE 0)
    + (IF has_class(pw, UpperChars) THEN 1 ELSE 0)
    + (IF has_class(pw, DigitChars) THEN 1 ELSE 0)
    + (IF has_symbol(pw) THEN 1 ELSE 0)

common_pattern(pw) == \E w \in WeakPatterns : contains(str_lower(pw), w)

Min(a, b) == IF a < b THEN a ELSE b
Max(a, b) == IF a < b THEN b ELSE a

\* The score in units of 1/80: 0.6 * min(len/16, 1) = 3 * min(len, 16) / 80,
\* 0.4 * variety/4 = 8 * variety / 80, the penalty 0.25 = 20/80.
estimate_password_strength(pw) ==
    Max(0, Min(80, 3 * Min(Len(pw), LengthCap) + 8 * variety(pw)
                   - (IF common_pattern(pw) THEN 20 ELSE 0)))

\* The one input class on which the double-precision sum differs from the exact
\* one in its comparison with 0.55: 0.6 * (12/16) + 0.4 * (1/4) evaluates to
\* 0.5499999999999999.
rounds_below(pw) == Len(pw) = 12 /\ variety(pw) = 1 /\ ~common_pattern(pw)

Ok(v) == [ok |-> TRUE, value |-> v]
Err(kind, msg) == [ok |-> FALSE, error |-> kind, msg |-> msg]

short_limit_mut(pw) ==
    IF Len(pw) < 8
    THEN Err("PasswordPolicyError", "Password too short (min 10).")
    ELSE IF estimate_password_strength(pw) < 44 \/ rounds_below(pw)
    THEN Err("PasswordPolicyError", "Password too weak; include length & variety.")
    ELSE Ok("none")

\* strength < 0.55 is score < 44/80
enforce_password_policy(pw) ==
    IF Len(pw) < MinPasswordLen
    THEN Err("PasswordPolicyError", "Password too short (min 10).")
    ELSE IF estimate_password_strength(pw) < 44 \/ rounds_below(pw)
    THEN Err("PasswordPolicyError", "Password too weak; include length & variety.")
    ELSE Ok("none")

(***************************************************************************)
(* Email shape: ^[^@\s]+@[^@\s]+\.[A-Za-z]{2,}$                            *)
(***************************************************************************)
plain(s) == \A i \in 1..Len(s) : s[i] # "@" /\ s[i] \notin SpaceChars
letters(s) == \A i \in 1..Len(s) : s[i] \in (LowerChars \cup UpperChars)

validate_email(email) ==
    \E a \in 2..Len(email) : \E d \in (a + 2)..(Len(email) - 2) :
        /\ email[a] = "@"
        /\ email[d] = "."
        /\ plain(SubSeq(email, 1, a - 1))
        /\ plain(SubSeq(email, a + 1, d - 1))
        /\ letters(SubSeq(email, d + 1, Len(email)))

(***************************************************************************)
(* Password hasher                                                         *)
(***************************************************************************)
Iterations == 120000

pbkdf2_hmac(password, salt, iterations) == <<"dk", password, salt, iterations>>

PasswordHasher_hash(password, salt) ==
    [algorithm |-> "pbkdf2_sha256", salt |-> salt, iterations |-> Iterations,
     hash |-> pbkdf2_hmac(password, salt, Iterations)]

GoogleDummyHash ==
    [algorithm |-> "google_oauth", salt |-> <<>>, iterations |-> 0,
     hash |-> <<"GOOGLE_OAUTH_USER">>]

verify_sentinel_mut(password, stored) ==
    IF stored.algorithm = "google_oauth" THEN TRUE
    ELSE pbkdf2_hmac(password, stored.salt, stored.iterations) = stored.hash

PasswordHasher_verify(password, stored) ==
    IF stored.algorithm = "google_oauth" THEN FALSE
    ELSE pbkdf2_hmac(password, stored.salt, stored.iterations) = stored.hash

(***************************************************************************)
(* Roles and permissions                                                   *)
(***************************************************************************)
DEFAULT_ROLES ==
    [r \in {"user", "admin"} |->
        IF r = "user" THEN {"read:self"}
        ELSE {"read:self", "read:any", "user:create", "user:delete"}]

\* The names the model uses, in Python's string order, for sorted(...)
NameOrder == <<"admin", "audit:read", "ghost", "read:any", "read:self", "user",
               "user:create", "user:delete">>
InNames(S) == LET keep(x) == x \in S IN SelectSeq(NameOrder, keep)
sorted(S) == InNames(S)
SeqSet(s) == {s[i] : i \in 1..Len(s)}

Union(SS) == UNION SS

direct_only_mut(u) == u.permissions

User_all_permissions(u) ==
    u.permissions \cup Union({DEFAULT_ROLES[r] : r \in (u.roles \cap DOMAIN DEFAULT_ROLES)})

(***************************************************************************)
(* Token codec                                                             *)
(***************************************************************************)
SigningKey == "fallback-key"
OtherKey == "attacker-key"

base64url(data) == [b64 |-> data]
urlsafe_b64decode(seg) == seg.b64
hmac_sha256(key, msg) == [mac |-> <<key, msg>>]

HEADER == <<<<"alg", "HS256">>, <<"typ", "david.atk">>>>

\* json.dumps(data, sort_keys=True): the members in key order
to_json_swap_mut(c) ==
    << <<"exp", c.iat>>, <<"iat", c.exp>>, <<"permissions", c.permissions>>,
       <<"roles", c.roles>>, <<"sub", c.sub>>, <<"token_id", c.token_id>>,
       <<"user_id", c.user_id>>, <<"username", c.username>> >>

AccessTokenClaims_to_json(c) ==
    << <<"exp", c.exp>>, <<"iat", c.iat>>, <<"permissions", c.permissions>>,
       <<"roles", c.roles>>, <<"sub", c.sub>>, <<"token_id", c.token_id>>,
       <<"user_id", c.user_id>>, <<"username", c.username>> >>

json_has(obj, k) == \E i \in 1..Len(obj) : obj[i][1] = k
json_get(obj, k, default) ==
    IF json_has(obj, k) THEN obj[CHOOSE i \in 1..Len(obj) : obj[i][1] = k][2] ELSE default

json_at(obj, k) == obj[CHOOSE i \in 1..Len(obj) : obj[i][1] = k][2]

\* An Optional value is the empty set (None) or a singleton.
None == {}
Some(x) == {x}

AccessTokenClaims_from_json(obj) ==
    [sub |-> json_at(obj, "sub"),
     iat |-> json_at(obj, "iat"),
     exp |-> json_at(obj, "exp"),
     roles |-> json_get(obj, "roles", <<>>),
     permissions |-> json_get(obj, "permissions", <<>>),
     token_id |-> json_at(obj, "token_id"),
     user_id |-> json_get(obj, "user_id", None),
     username |-> json_get(obj, "username", None)]

TokenCodec_encode(key, c) ==
    LET header_b == base64url(HEADER)
        payload_b == base64url(AccessTokenClaims_to_json(c))
        sig == base64url(hmac_sha256(key, <<header_b, payload_b>>))
    IN <<header_b, payload_b, sig>>

decode_nosig_mut(key, token) ==
    IF Len(token) # 3 THEN Err("TokenError", "Malformed token")
    ELSE Ok(AccessTokenClaims_from_json(urlsafe_b64decode(token[2])))

TokenCodec_decode(key, token) ==
    IF Len(token) # 3 THEN Err("TokenError", "Malformed token")
    ELSE LET expected == base64url(hmac_sha256(key, <<token[1], token[2]>>))
         IN IF expected # token[3] THEN Err("TokenError", "Invalid signature")
            ELSE Ok(AccessTokenClaims_from_json(urlsafe_b64decode(token[2])))

(***************************************************************************)
(* Rate limiter.  Token counts are kept in units of 1/RefillPeriod token,  *)
(* so that the refill of 0.2 token per second is one unit per second.      *)
(***************************************************************************)
Capacity == 5
RefillPeriod == 5

NewBucket(capacity, t) ==
    [capacity |-> capacity, tokens |-> capacity * RefillPeriod, last_refill |-> t]

lock_absent_mut(threads) == FALSE

allow_no_consume_mut(b, t) ==
    LET tokens == Min(b.capacity * RefillPeriod, b.tokens + (t - b.last_refill))
    IN [bucket |-> [b EXCEPT !.tokens = tokens, !.last_refill = t],
        allowed |-> tokens >= RefillPeriod]

allow_deny_drains_mut(b, t) ==
    LET tokens == Min(b.capacity * RefillPeriod, b.tokens + (t - b.last_refill))
    IN IF tokens >= RefillPeriod
       THEN [bucket |-> [b EXCEPT !.tokens = tokens - RefillPeriod, !.last_refill = t],
             allowed |-> TRUE]
       ELSE [bucket |-> [b EXCEPT !.tokens = 0, !.last_refill = t],
             allowed |-> FALSE]

\* allow(cost = 1.0)
TokenBucket_allow(b, t) ==
    LET tokens == Min(b.capacity * RefillPeriod, b.tokens + (t - b.last_refill))
    IN IF tokens >= RefillPeriod
       THEN [bucket |-> [b EXCEPT !.tokens = tokens - RefillPeriod, !.last_refill = t],
             allowed |-> TRUE]
       ELSE [bucket |-> [b EXCEPT !.tokens = tokens, !.last_refill = t],
             allowed |-> FALSE]

RateLimiter_check(bks, capacity, key, t) ==
    LET bucket == IF key \in DOMAIN bks THEN bks[key] ELSE NewBucket(capacity, t)
        r == TokenBucket_allow(bucket, t)
    IN [buckets |-> (key :> r.bucket) @@ bks, allowed |-> r.allowed]

(***************************************************************************)
(* Audit log                                                               *)
(***************************************************************************)
AuditEvent(at, action, username, detail) ==
    [at |-> at, action |-> action, username |-> username, detail |-> detail]

record_prepend_mut(events, capacity, ev) ==
    LET e == <<ev>> \o events
    IN IF Len(e) > capacity THEN SubSeq(e, 1, capacity) ELSE e

\* self._events.append(event)
AuditLog_append(events, ev) == Append(events, ev)

evict_newest_mut(events, capacity) ==
    IF Len(events) > capacity THEN SubSeq(events, 1, capacity) ELSE events

\* if len(self._events) > self.capacity: self._events.pop(0)
AuditLog_evict(events, capacity) ==
    IF Len(events) > capacity THEN Tail(events) ELSE events

\* The list objects of the log: _events is one object, changed in place by record;
\* every other object is a list that list() made for its caller.
EventsRef == 0

list_live_view_mut(heap, fresh) == [heap |-> heap, ref |-> EventsRef]

\* list(self._events): a new list object with the elements _events has now
AuditLog_list(heap, fresh) ==
    [heap |-> (fresh :> heap[EventsRef]) @@ heap, ref |-> fresh]

AuditLog_record(events, capacity, ev) ==
    LET e == Append(events, ev)
    IN IF Len(e) > capacity THEN Tail(e) ELSE e

(***************************************************************************)
(* Configuration of the modelled service                                   *)
(***************************************************************************)
AccessTTL == 900          \* access_token_ttl, seconds
RefreshTTL == 604800      \* refresh_token_ttl, seconds
LoginBurst == 2           \* capacity of the limiter the service is built with
AuditCapacity == 2        \* capacity of the audit log the service is built with
MaxDraws == 5             \* random draws explored
MaxFailedLogins == 1      \* failed_logins counted

(***************************************************************************)
(* Inputs of the calls                                                     *)
(***************************************************************************)
U_a == <<"a">>
U_A == <<" ", "A">>
U_b == <<"b">>
U_blank == <<" ">>

E_a == <<"a", "@", "x", ".", "c", "o">>
E_A == <<"A", "@", "x", ".", "c", "o">>
E_b == <<"b", "@", "x", ".", "c", "o">>
E_bad == <<"a", "@", "x">>

PW_good == <<"S","t","r","0","n","g","P","a","s","s","!","!">>
PW_short == <<"S","h","0","r","t","!","P","w","9">>
PW_flat == <<"z","z","z","z","z","z","z","z","z","z","z","z">>
PW_empty == <<>>
LoginPasswords == {PW_good, PW_empty}

\* register_user(username, email, password) calls
RegisterInputs ==
    { <<U_a, E_a, PW_good>>, <<U_A, E_A, PW_good>>,
      <<U_a, E_a, PW_short>>, <<U_a, E_a, PW_flat>>,
      <<U_blank, E_a, PW_short>>, <<U_a, E_bad, PW_short>> }
LoginUsers == {U_a, U_b}
RoleUsers == {U_b}
GrantUsers == {U_a}

IP_1 == <<"i", "p", "1">>
IPs == {IP_1}
RoleInputs == {"admin"}
PermInputs == {"audit:read"}

GoogleUsers ==
    { [google_id |-> "g1", email |-> E_b, email_verified |-> TRUE],
      [google_id |-> "g2", email |-> E_a, email_verified |-> FALSE] }

(***************************************************************************)
(* Repository                                                              *)
(***************************************************************************)
Repo == [byName |-> byName, byId |-> byId, byEmail |-> byEmail]

repo_bind(r, u) ==
    [byName |-> (_norm_username(u.username) :> u.id) @@ r.byName,
     byId |-> (u.id :> u.id) @@ r.byId,
     byEmail |-> (str_lower(u.email) :> u.id) @@ r.byEmail]

InMemoryUserRepository_has(r, username) == _norm_username(username) \in DOMAIN r.byName
InMemoryUserRepository_get(r, username) == r.byName[_norm_username(username)]

next_id_stale_mut(n) == [id |-> n, next |-> n]

\* _next_id, under the repository's lock: the id handed out and the counter after
InMemoryUserRepository_next_id(n) == [id |-> n, next |-> n + 1]

add_overwrite_mut(r, u) == Ok(repo_bind(r, u))

InMemoryUserRepository_add(r, u) ==
    IF _norm_username(u.username) \in DOMAIN r.byName
    THEN Err("UserAlreadyExists", u.username)
    ELSE Ok(repo_bind(r, u))

InMemoryUserRepository_save(r, u) == repo_bind(r, u)

InMemoryUserRepository_update(r, u) ==
    IF _norm_username(u.username) \notin DOMAIN r.byName
    THEN Err("AuthError", "Cannot update missing user")
    ELSE Ok(repo_bind(r, u))

SetRepo(r) == byName' = r.byName /\ byId' = r.byId /\ byEmail' = r.byEmail

EmptyMap == [x \in {} |-> x]
MapRemove(f, k) == [x \in (DOMAIN f) \ {k} |-> f[x]]

(***************************************************************************)
(* Token issuance                                                          *)
(***************************************************************************)
\* _issue_access_token: the claims built from the live user record
AccessClaims(u, t, draw) ==
    [sub |-> u.username, iat |-> t, exp |-> t + AccessTTL,
     roles |-> sorted(u.roles), permissions |-> sorted(User_all_permissions(u)),
     token_id |-> <<"tid", draw>>, user_id |-> Some(u.id), username |-> Some(u.username)]

_issue_access_token(u, t, draw) == TokenCodec_encode(SigningKey, AccessClaims(u, t, draw))

RefreshPayload(rid, exp) == << <<"rid", rid>>, <<"exp", exp>> >>

RefreshToken(key, rid, exp) ==
    LET payload == RefreshPayload(rid, exp)
    IN <<"r", base64url(payload), base64url(hmac_sha256(key, payload))>>

refresh_fixed_id_mut(u, t, draw) ==
    LET token_id == <<"rid", 0>>
    IN <<RefreshToken(SigningKey, token_id, t + RefreshTTL), token_id>>

\* _issue_refresh_token: (token, token_id)
_issue_refresh_token(u, t, draw) ==
    LET token_id == <<"rid", draw>>
    IN <<RefreshToken(SigningKey, token_id, t + RefreshTTL), token_id>>

(***************************************************************************)
(* Verification and permission check (no state is read but the clock)      *)
(***************************************************************************)
verify_strict_mut(token, t) ==
    LET d == TokenCodec_decode(SigningKey, token)
    IN IF ~d.ok THEN d
       ELSE IF d.value.exp <= t THEN Err("TokenError", "Expired access token")
       ELSE d

verify_access_token(token, t) ==
    LET d == TokenCodec_decode(SigningKey, token)
    IN IF ~d.ok THEN d
       ELSE IF d.value.exp < t THEN Err("TokenError", "Expired access token")
       ELSE d

require_perm_first_mut(token, permission, t) ==
    LET d == TokenCodec_decode(SigningKey, token)
    IN IF ~d.ok THEN d
       ELSE IF permission \notin SeqSet(d.value.permissions)
       THEN Err("PermissionDenied", permission)
       ELSE verify_access_token(token, t)

require_live_mut(token, permission, t) ==
    LET v == verify_access_token(token, t)
    IN IF ~v.ok THEN v
       ELSE LET uid == CHOOSE i \in v.value.user_id : TRUE
            IN IF permission \notin User_all_permissions(users[uid])
               THEN Err("PermissionDenied", permission)
               ELSE v

require(token, permission, t) ==
    LET v == verify_access_token(token, t)
    IN IF ~v.ok THEN v
       ELSE IF permission \notin SeqSet(v.value.permissions)
       THEN Err("PermissionDenied", permission)
       ELSE v

(***************************************************************************)
(* The service: state after construction                                   *)
(***************************************************************************)
Call(op, args, out) == [op |-> op, args |-> args, out |-> out]

\* No call in progress: callers are sequential, a call is made when none is running.
Idle == Call("idle", <<>>, Ok("none"))

ScenOff == [st |-> "off", u |-> <<>>, tok |-> {}]

Metrics0 ==
    [registrations |-> 0, logins |-> 0, failed_logins |-> 0, token_issues |-> 0,
     refreshes |-> 0]

\* The service as a caller finds it
Snapshot ==
    [users |-> users, byName |-> byName, byId |-> byId, byEmail |-> byEmail,
     nextId |-> nextId, buckets |-> buckets, now |-> now, audit |-> audit,
     metrics |-> metrics, entropy |-> entropy, issuedAccess |-> issuedAccess,
     issuedRefresh |-> issuedRefresh]

Snapshot0 ==
    [users |-> EmptyMap, byName |-> EmptyMap, byId |-> EmptyMap, byEmail |-> EmptyMap,
     nextId |-> 1, buckets |-> EmptyMap, now |-> 0, audit |-> <<>>,
     metrics |-> Metrics0, entropy |-> 0, issuedAccess |-> {}, issuedRefresh |-> {}]

SvcInit ==
    /\ users = EmptyMap
    /\ byName = EmptyMap
    /\ byId = EmptyMap
    /\ byEmail = EmptyMap
    /\ nextId = 1
    /\ buckets = EmptyMap
    /\ now = 0
    /\ audit = <<>>
    /\ metrics = Metrics0
    /\ entropy = 0
    /\ issuedAccess = {}
    /\ issuedRefresh = {}
    /\ last = Idle
    /\ scen = [st |-> "fresh", u |-> <<>>, tok |-> {}]
    /\ pre = Snapshot0

repoVars == <<users, byName, byId, byEmail, nextId>>
issuedVars == <<issuedAccess, issuedRefresh>>

(***************************************************************************)
(* register_user                                                           *)
(***************************************************************************)
NewUser(id, uname, email, pwd_hash, t) ==
    [id |-> id, username |-> uname, email |-> email, password_hash |-> pwd_hash,
     roles |-> {"user"}, permissions |-> {}, created_at |-> t, last_login |-> None,
     metadata |-> {}, refresh_tokens |-> EmptyMap]

register_user(username, email, password) ==
    LET uname == _norm_username(username)
        early == IF uname = <<>> THEN Err("AuthError", "Username cannot be empty")
                 ELSE IF ~validate_email(email) THEN Err("AuthError", "Invalid email format")
                 ELSE enforce_password_policy(password)
        args == <<username, email, password>>
    IN IF ~early.ok
       THEN /\ last' = Call("register", args, early)
            /\ scen' = ScenOff
            /\ UNCHANGED <<repoVars, buckets, now, audit, metrics, entropy, issuedVars>>
       ELSE /\ entropy < MaxDraws
            /\ LET pwd_hash == PasswordHasher_hash(password, <<"salt", entropy + 1>>)
                   drawn == InMemoryUserRepository_next_id(nextId)
                   user == NewUser(drawn.id, uname, str_lower(str_strip(email)), pwd_hash, now)
                   added == InMemoryUserRepository_add(Repo, user)
               IN /\ entropy' = entropy + 1
                  /\ nextId' = drawn.next
                  /\ IF ~added.ok
                     THEN /\ last' = Call("register", args, added)
                          /\ scen' = ScenOff
                          /\ UNCHANGED <<users, byName, byId, byEmail, audit, metrics>>
                     ELSE /\ users' = (user.id :> user) @@ users
                          /\ SetRepo(added.value)
                          /\ metrics' = [metrics EXCEPT !.registrations = @ + 1]
                          /\ audit' = AuditLog_record(audit, AuditCapacity,
                                          AuditEvent(now, "register", uname, "user created"))
                          /\ last' = Call("register", args, Ok(user.id))
                          /\ scen' = IF scen.st = "fresh"
                                     THEN [st |-> "registered", u |-> uname, tok |-> {}]
                                     ELSE ScenOff
                  /\ UNCHANGED <<buckets, now, issuedVars>>

(***************************************************************************)
(* login                                                                   *)
(***************************************************************************)
InvalidCredentials == Err("InvalidCredentials", "Invalid credentials")

rate_limit_leak_mut == Err("InvalidCredentials", "Too many attempts")

\* raise InvalidCredentials("Invalid credentials")  # hide rate limit detail
RateLimited == Err("InvalidCredentials", "Invalid credentials")

LoginResult(access, refresh, u) ==
    [access_token |-> access, refresh_token |-> refresh, user_id |-> u.id,
     username |-> u.username, roles |-> u.roles]

\* f"login:{_norm_username(username)}:{ip}"
login_key(username, ip) ==
    <<"l", "o", "g", "i", "n", ":">> \o _norm_username(username) \o <<":">> \o ip

zero_expiry_mut(t) == 0

\* "self.clock.now() + self.config.refresh_token_ttl", the expiry login stores
\* under the refresh id
login_refresh_expiry(t) == t + RefreshTTL

login(username, password, ip) ==
    LET key == login_key(username, ip)
        rl == RateLimiter_check(buckets, LoginBurst, key, now)
        args == <<username, password, ip>>
        found == InMemoryUserRepository_has(Repo, username)
    IN /\ buckets' = rl.buckets
       /\ IF ~rl.allowed
          THEN /\ audit' = AuditLog_record(audit, AuditCapacity,
                               AuditEvent(now, "login.rate_limited", username, ip))
               /\ last' = Call("login", args, RateLimited)
               /\ scen' = ScenOff
               /\ UNCHANGED <<repoVars, now, metrics, entropy, issuedVars>>
          ELSE IF ~found
          THEN /\ metrics.failed_logins < MaxFailedLogins
               /\ metrics' = [metrics EXCEPT !.failed_logins = @ + 1]
               /\ audit' = AuditLog_record(audit, AuditCapacity,
                               AuditEvent(now, "login.fail", username, "user missing"))
               /\ last' = Call("login", args, InvalidCredentials)
               /\ scen' = ScenOff
               /\ UNCHANGED <<repoVars, now, entropy, issuedVars>>
          ELSE LET uid == InMemoryUserRepository_get(Repo, username)
                   user == users[uid]
               IN IF ~PasswordHasher_verify(password, user.password_hash)
                  THEN /\ metrics.failed_logins < MaxFailedLogins
                       /\ metrics' = [metrics EXCEPT !.failed_logins = @ + 1]
                       /\ audit' = AuditLog_record(audit, AuditCapacity,
                                       AuditEvent(now, "login.fail", username, "bad password"))
                       /\ last' = Call("login", args, InvalidCredentials)
                       /\ scen' = ScenOff
                       /\ UNCHANGED <<repoVars, now, entropy, issuedVars>>
                  ELSE /\ entropy + 2 <= MaxDraws
                       /\ LET u1 == [user EXCEPT !.last_login = Some(now)]
                              jwt == _issue_access_token(u1, now, entropy + 1)
                              rt == _issue_refresh_token(u1, now, entropy + 2)
                              u2 == [u1 EXCEPT !.refresh_tokens =
                                         (rt[2] :> login_refresh_expiry(now)) @@ @]
                              upd == InMemoryUserRepository_update(Repo, u2)
                          IN /\ users' = [users EXCEPT ![uid] = u2]
                             /\ SetRepo(upd.value)
                             /\ entropy' = entropy + 2
                             /\ metrics' = [metrics EXCEPT !.token_issues = @ + 1,
                                                           !.logins = @ + 1]
                             /\ audit' = AuditLog_record(audit, AuditCapacity,
                                             AuditEvent(now, "login.success", u2.username, ""))
                             /\ issuedAccess' = issuedAccess \cup
                                    {[token |-> jwt, claims |-> AccessClaims(u1, now, entropy + 1)]}
                             /\ issuedRefresh' = issuedRefresh \cup {rt[1]}
                             /\ last' = Call("login", args, Ok(LoginResult(jwt, rt[1], u2)))
                             /\ scen' = IF scen.st = "registered" /\ scen.u = u2.username
                                        THEN [st |-> "loggedin", u |-> scen.u, tok |-> {jwt}]
                                        ELSE ScenOff
                             /\ UNCHANGED <<nextId, now>>

(***************************************************************************)
(* refresh                                                                 *)
(***************************************************************************)
RotateRefreshOnUse == TRUE

MalformedRefresh == Err("TokenError", "Malformed refresh token")

\* The try block: split, prefix, signature, payload.  Every failure inside it,
\* the TokenErrors raised there included, leaves as "Malformed refresh token".
parse_refresh_nosig_mut(token) ==
    IF Len(token) # 3 THEN MalformedRefresh
    ELSE IF token[1] # "r" THEN MalformedRefresh
    ELSE LET payload_raw == urlsafe_b64decode(token[2])
         IN Ok([rid |-> json_at(payload_raw, "rid"), exp |-> json_at(payload_raw, "exp")])

parse_refresh(token) ==
    IF Len(token) # 3 THEN MalformedRefresh
    ELSE IF token[1] # "r" THEN MalformedRefresh
    ELSE LET payload_raw == urlsafe_b64decode(token[2])
             expected == base64url(hmac_sha256(SigningKey, payload_raw))
         IN IF expected # token[3] THEN MalformedRefresh
            ELSE Ok([rid |-> json_at(payload_raw, "rid"),
                     exp |-> json_at(payload_raw, "exp")])

\* The users reachable through _users that hold rid
RefreshOwners(rid) ==
    {byName[k] : k \in {n \in DOMAIN byName : rid \in DOMAIN users[byName[n]].refresh_tokens}}

unpack_ok_mut == Ok("tokens")

\* "jwt, claims = self._issue_access_token(user)": the callee returns one str, which
\* Python unpacks character by character; a token has far more than two characters.
UnpackError == Err("ValueError", "too many values to unpack (expected 2)")

refresh(token) ==
    LET p == parse_refresh(token)
        args == <<token>>
    IN /\ scen' = ScenOff
       /\ IF ~p.ok
          THEN /\ last' = Call("refresh", args, p)
               /\ UNCHANGED <<repoVars, buckets, now, audit, metrics, entropy, issuedVars>>
          ELSE IF now > p.value.exp
          THEN /\ last' = Call("refresh", args, Err("TokenError", "Refresh expired"))
               /\ UNCHANGED <<repoVars, buckets, now, audit, metrics, entropy, issuedVars>>
          ELSE IF RefreshOwners(p.value.rid) = {}
          THEN /\ last' = Call("refresh", args, Err("TokenError", "Unknown refresh token"))
               /\ UNCHANGED <<repoVars, buckets, now, audit, metrics, entropy, issuedVars>>
          ELSE LET uid == CHOOSE i \in RefreshOwners(p.value.rid) : TRUE
                   user == users[uid]
                   u1 == IF RotateRefreshOnUse
                         THEN [user EXCEPT !.refresh_tokens = MapRemove(@, p.value.rid)]
                         ELSE user
               IN \* _issue_access_token runs, then the unpacking of its result raises:
                  \* nothing after line 673 is executed.
                  /\ entropy < MaxDraws
                  /\ users' = [users EXCEPT ![uid] = u1]
                  /\ entropy' = entropy + 1
                  /\ metrics' = [metrics EXCEPT !.token_issues = @ + 1]
                  /\ last' = Call("refresh", args, UnpackError)
                  /\ UNCHANGED <<byName, byId, byEmail, nextId, buckets, now, audit, issuedVars>>

(***************************************************************************)
(* verify_access_token, require, assign_role, grant_permission             *)
(***************************************************************************)
Resigned(tok) ==
    LET c == AccessTokenClaims_from_json(urlsafe_b64decode(tok[2]))
    IN TokenCodec_encode(OtherKey, [c EXCEPT !.exp = @ + AccessTTL])

\* What a caller may present: the tokens handed out, the same with the expiry
\* extended under the old signature, and a cut one.
AccessPresentable ==
    LET toks == {t.token : t \in issuedAccess}
    IN toks \cup {<<t[1], Resigned(t)[2], t[3]>> : t \in toks}
            \cup {<<t[1], t[2]>> : t \in toks}

RefreshPresentable ==
    issuedRefresh
        \cup {<<"x", t[2], t[3]>> : t \in issuedRefresh}
        \cup {<<t[1], t[2]>> : t \in issuedRefresh}
        \cup {RefreshToken(OtherKey, json_at(urlsafe_b64decode(t[2]), "rid"),
                           json_at(urlsafe_b64decode(t[2]), "exp")) : t \in issuedRefresh}

VerifyCall(token) ==
    /\ last' = Call("verify", <<token>>, verify_access_token(token, now))
    /\ scen' = IF scen.st = "loggedin" /\ token \in scen.tok
               THEN [scen EXCEPT !.st = "verified"]
               ELSE ScenOff
    /\ UNCHANGED <<repoVars, buckets, now, audit, metrics, entropy, issuedVars>>

RequireCall(token, permission) ==
    /\ last' = Call("require", <<token, permission>>, require(token, permission, now))
    /\ scen' = ScenOff
    /\ UNCHANGED <<repoVars, buckets, now, audit, metrics, entropy, issuedVars>>

UserNotFound == Err("AuthError", "User not found")

assign_role(username, role) ==
    /\ scen' = ScenOff
    /\ IF ~InMemoryUserRepository_has(Repo, username)
       THEN /\ last' = Call("assign_role", <<username, role>>, UserNotFound)
            /\ UNCHANGED <<repoVars, buckets, now, audit, metrics, entropy, issuedVars>>
       ELSE LET uid == InMemoryUserRepository_get(Repo, username)
                u1 == [users[uid] EXCEPT !.roles = @ \cup {role}]
            IN /\ users' = [users EXCEPT ![uid] = u1]
               /\ SetRepo(InMemoryUserRepository_update(Repo, u1).value)
               /\ audit' = AuditLog_record(audit, AuditCapacity,
                               AuditEvent(now, "assign_role", username, role))
               /\ last' = Call("assign_role", <<username, role>>, Ok("none"))
               /\ UNCHANGED <<nextId, buckets, now, metrics, entropy, issuedVars>>

grant_permission(username, permission) ==
    /\ scen' = ScenOff
    /\ IF ~InMemoryUserRepository_has(Repo, username)
       THEN /\ last' = Call("grant_permission", <<username, permission>>, UserNotFound)
            /\ UNCHANGED <<repoVars, buckets, now, audit, metrics, entropy, issuedVars>>
       ELSE LET uid == InMemoryUserRepository_get(Repo, username)
                u1 == [users[uid] EXCEPT !.permissions = @ \cup {permission}]
            IN /\ users' = [users EXCEPT ![uid] = u1]
               /\ SetRepo(InMemoryUserRepository_update(Repo, u1).value)
               /\ audit' = AuditLog_record(audit, AuditCapacity,
                               AuditEvent(now, "grant_permission", username, permission))
               /\ last' = Call("grant_permission", <<username, permission>>, Ok("none"))
               /\ UNCHANGED <<nextId, buckets, now, metrics, entropy, issuedVars>>

(***************************************************************************)
(* Google sign-in (GoogleAuthProvider, with the provider's answer an input)*)
(***************************************************************************)
DigitSeq == <<"0","1","2","3","4","5","6","7","8","9">>

RECURSIVE str_of_int(_)
str_of_int(n) ==
    IF n < 10 THEN <<DigitSeq[n + 1]>>
    ELSE str_of_int(n \div 10) \o <<DigitSeq[(n % 10) + 1]>>

\* email.split('@')[0]
local_part(email) ==
    IF \E i \in 1..Len(email) : email[i] = "@"
    THEN SubSeq(email, 1, (CHOOSE i \in 1..Len(email) :
                              email[i] = "@" /\ \A j \in 1..(i - 1) : email[j] # "@") - 1)
    ELSE email

IsLowerAlnum(c) == c \in (LowerChars \cup DigitChars)

no_suffix_mut(r, base, counter) == base

counter_stuck_mut(counter) == counter

\* "counter += 1" in the search for a free username
next_counter(counter) == counter + 1

RECURSIVE first_free_username(_, _, _)
first_free_username(r, base, counter) ==
    LET username == IF counter = 0 THEN base ELSE base \o str_of_int(counter)
    IN IF ~InMemoryUserRepository_has(r, username) THEN username
       ELSE first_free_username(r, base, counter + 1)

_generate_username_from_email(r, email) ==
    first_free_username(r, SelectSeq(str_lower(local_part(email)), IsLowerAlnum), 0)

GoogleUser(id, username, g, t) ==
    [id |-> id, username |-> username, email |-> g.email, password_hash |-> GoogleDummyHash,
     roles |-> {"user"}, permissions |-> {}, created_at |-> t, last_login |-> None,
     metadata |-> {<<"auth_provider", "google">>, <<"google_id", g.google_id>>},
     refresh_tokens |-> EmptyMap]

unverified_accepted_mut(g) == FALSE

\* "if not google_user.email_verified"
email_not_verified(g) == ~g.email_verified

authenticate_with_code(g) ==
    LET args == <<g>>
        key == str_lower(g.email)
        existing == key \in DOMAIN byEmail
    IN /\ scen' = ScenOff
       /\ IF email_not_verified(g)
          THEN /\ last' = Call("google", args, Err("GoogleAuthError", "Google email not verified"))
               /\ UNCHANGED <<repoVars, buckets, now, audit, metrics, entropy, issuedVars>>
          ELSE /\ entropy + 2 <= MaxDraws
               /\ LET user == IF existing THEN users[byEmail[key]]
                              ELSE GoogleUser(InMemoryUserRepository_next_id(nextId).id,
                                       _generate_username_from_email(Repo, g.email), g, now)
                      \* _register_google_user: save, then the audit event
                      r1 == IF existing THEN Repo ELSE InMemoryUserRepository_save(Repo, user)
                      a1 == IF existing THEN audit
                            ELSE AuditLog_record(audit, AuditCapacity,
                                     AuditEvent(now, "user_registered_google",
                                                user.username, g.email))
                      \* _create_login_result_for_user
                      u1 == [user EXCEPT !.last_login = Some(now)]
                      r2 == InMemoryUserRepository_save(r1, u1)
                      jwt == _issue_access_token(u1, now, entropy + 1)
                      rt == _issue_refresh_token(u1, now, entropy + 2)
                  IN /\ users' = (u1.id :> u1) @@ users
                     /\ SetRepo(r2)
                     /\ nextId' = IF existing THEN nextId
                                  ELSE InMemoryUserRepository_next_id(nextId).next
                     /\ entropy' = entropy + 2
                     /\ metrics' = [metrics EXCEPT !.token_issues = @ + 1]
                     /\ audit' = AuditLog_record(a1, AuditCapacity,
                                     AuditEvent(now, "user_login_google", u1.username, ""))
                     /\ issuedAccess' = issuedAccess \cup
                            {[token |-> jwt, claims |-> AccessClaims(u1, now, entropy + 1)]}
                     /\ issuedRefresh' = issuedRefresh \cup {rt[1]}
                     \* refresh_token is the whole (token, token_id) pair
                     /\ last' = Call("google", args, Ok(LoginResult(jwt, rt, u1)))
                     /\ UNCHANGED <<buckets, now>>

(***************************************************************************)
(* Time                                                                    *)
(***************************************************************************)
\* Between two calls the clock moves on.  The instants that matter to a holder of
\* an access token are its expiry and the second after it; the clock is advanced
\* to the next of these.
Instants == UNION {{t.claims.exp, t.claims.exp + 1} : t \in issuedAccess}

Tick(t) ==
    /\ t > now
    /\ now' = t
    /\ UNCHANGED <<repoVars, buckets, audit, metrics, entropy, issuedVars, last, scen, pre>>

(***************************************************************************)
(* The service under sequential callers, at one instant of the clock       *)
(***************************************************************************)
CodecIdle == cClaims = {} /\ cToken = <<>> /\ cOut = [tampered |-> FALSE, res |-> {}]
RlIdle == rlBuckets = EmptyMap /\ rlNow = 0 /\ rlHist = EmptyMap

validate_amount_zero_ok_mut(amount) ==
    IF amount < 0 THEN [ok |-> FALSE, error |-> "LedgerError", reason |-> "amount must be > 0"]
    ELSE [ok |-> TRUE, value |-> "none"]

funds_unchecked_mut(balance, amount) == FALSE

apply_no_debit_mut(l, tx) ==
    [balances |-> (tx.to_user :> ((IF tx.to_user \in DOMAIN l.balances
                                    THEN l.balances[tx.to_user] ELSE 0) + tx.amount))
                      @@ l.balances,
     transactions |-> Append(l.transactions, tx)]

\* Ledger.__init__
Ledger0 == [balances |-> EmptyMap, transactions |-> <<>>]

AuxIdle == al = <<>> /\ th = <<>> /\ assigned = <<>> /\ took = 0 /\ attempts = <<>> /\ ledger = Ledger0

Init == SvcInit /\ CodecIdle /\ RlIdle /\ AuxIdle

otherVars == <<codecVars, rlVars, auxVars>>

Register ==
    /\ last = Idle
    /\ \E i \in RegisterInputs : register_user(i[1], i[2], i[3])
    /\ pre' = Snapshot
    /\ UNCHANGED otherVars

Login ==
    /\ last = Idle
    /\ \E u \in LoginUsers, p \in LoginPasswords, ip \in IPs : login(u, p, ip)
    /\ pre' = Snapshot
    /\ UNCHANGED otherVars

Refresh ==
    /\ last = Idle
    /\ \E t \in RefreshPresentable : refresh(t)
    /\ pre' = Snapshot
    /\ UNCHANGED otherVars

Verify ==
    /\ last = Idle
    /\ \E t \in AccessPresentable : VerifyCall(t)
    /\ pre' = Snapshot
    /\ UNCHANGED otherVars

Require ==
    /\ last = Idle
    /\ \E t \in {a.token : a \in issuedAccess}, p \in PermInputs \cup {"read:any"} :
          RequireCall(t, p)
    /\ pre' = Snapshot
    /\ UNCHANGED otherVars

AssignRole ==
    /\ last = Idle
    /\ \E u \in RoleUsers, r \in RoleInputs : assign_role(u, r)
    /\ pre' = Snapshot
    /\ UNCHANGED otherVars

GrantPermission ==
    /\ last = Idle
    /\ \E u \in GrantUsers, p \in PermInputs : grant_permission(u, p)
    /\ pre' = Snapshot
    /\ UNCHANGED otherVars

GoogleSignIn ==
    /\ last = Idle
    /\ \E g \in GoogleUsers : authenticate_with_code(g)
    /\ pre' = Snapshot
    /\ UNCHANGED otherVars

Advance ==
    /\ last = Idle
    /\ \E t \in Instants : Tick(t)
    /\ UNCHANGED otherVars

\* The caller takes the outcome of its call.
Return ==
    /\ last # Idle
    /\ last' = Idle
    /\ pre' = Snapshot0
    /\ UNCHANGED <<repoVars, buckets, now, audit, metrics, entropy, issuedVars, scen>>
    /\ UNCHANGED otherVars

Next ==
    \/ Register \/ Login \/ Refresh \/ Verify \/ Require
    \/ AssignRole \/ GrantPermission \/ GoogleSignIn \/ Return

Spec == Init /\ [][Next]_vars

(***************************************************************************)
(* The service with the clock advancing between the calls of one user      *)
(***************************************************************************)
RegisterAlice ==
    /\ last = Idle
    /\ register_user(U_a, E_a, PW_good)
    /\ pre' = Snapshot
    /\ UNCHANGED otherVars

LoginAlice ==
    /\ last = Idle
    /\ login(U_a, PW_good, IP_1)
    /\ pre' = Snapshot
    /\ UNCHANGED otherVars

AssignRoleAlice ==
    /\ last = Idle
    /\ \E r \in RoleInputs : assign_role(U_a, r)
    /\ pre' = Snapshot
    /\ UNCHANGED otherVars

ClockNext ==
    \/ RegisterAlice \/ LoginAlice \/ Refresh \/ Verify
    \/ AssignRoleAlice \/ Advance \/ Return

SpecClock == Init /\ [][ClockNext]_vars

(***************************************************************************)
(* TokenCodec on its own: a claims object is encoded, the token's signature*)
(* or payload segment may be replaced, and the token is decoded.           *)
(***************************************************************************)
ClaimsInputs ==
    [sub : {<<"a">>, <<"b">>}, iat : {0, 1}, exp : {900, 901},
     roles : {<<>>, <<"user">>, <<"admin", "user">>},
     permissions : {<<>>, <<"read:self">>},
     token_id : {<<"tid", 1>>, <<"tid", 2>>},
     user_id : {None, Some(1)}, username : {None, Some(<<"a">>)}]

CodecInit ==
    /\ cClaims \in {{c} : c \in ClaimsInputs}
    /\ cToken = <<>>
    /\ cOut = [tampered |-> FALSE, res |-> {}]

TheClaims == CHOOSE c \in cClaims : TRUE

\* Signature segments other than the token's own: made with another key, made for
\* another payload, and the signature of nothing at all.
OtherSignatures(token) ==
    { base64url(hmac_sha256(OtherKey, <<token[1], token[2]>>)),
      base64url(hmac_sha256(SigningKey, <<token[1], Resigned(token)[2]>>)),
      base64url(hmac_sha256(SigningKey, <<>>)) } \ {token[3]}

Encode ==
    /\ cToken = <<>>
    /\ cToken' = TokenCodec_encode(SigningKey, TheClaims)
    /\ UNCHANGED <<cClaims, cOut, svcVars, rlVars, auxVars>>

TamperSignature ==
    /\ cToken # <<>> /\ cOut.res = {}
    /\ \E sig \in OtherSignatures(cToken) : cToken' = [cToken EXCEPT ![3] = sig]
    /\ cOut' = [cOut EXCEPT !.tampered = TRUE]
    /\ UNCHANGED <<cClaims, svcVars, rlVars, auxVars>>

TamperPayload ==
    /\ cToken # <<>> /\ cOut.res = {} /\ ~cOut.tampered
    /\ cToken' = [cToken EXCEPT ![2] = Resigned(cToken)[2]]
    /\ cOut' = [cOut EXCEPT !.tampered = TRUE]
    /\ UNCHANGED <<cClaims, svcVars, rlVars, auxVars>>

Decode ==
    /\ cToken # <<>> /\ cOut.res = {}
    /\ cOut' = [cOut EXCEPT !.res = {TokenCodec_decode(SigningKey, cToken)}]
    /\ UNCHANGED <<cClaims, cToken, svcVars, rlVars, auxVars>>

CodecNext == Encode \/ TamperSignature \/ TamperPayload \/ Decode

InitCodec == SvcInit /\ CodecInit /\ RlIdle /\ AuxIdle

SpecCodec == InitCodec /\ [][CodecNext]_vars

(***************************************************************************)
(* RateLimiter on its own, with the clock advancing in seconds.  For each  *)
(* key rlHist keeps what its callers saw: the checks made in the instant   *)
(* the bucket was created, and the last two checks.                        *)
(***************************************************************************)
RlKeys == {"k1", "k2"}
MaxChecks == 8            \* checks explored, over all keys
MaxRlTime == 5            \* last clock value explored

RlSeen(key, t, allowed) ==
    IF key \notin DOMAIN rlHist
    THEN [n |-> 1, t0 |-> t, burst |-> 1, admitted |-> IF allowed THEN 1 ELSE 0,
          prevT |-> t, prevOk |-> TRUE, lastT |-> t, lastOk |-> allowed]
    ELSE LET h == rlHist[key]
             first == h.t0 = t
         IN [n |-> h.n + 1, t0 |-> h.t0,
             burst |-> IF first THEN h.burst + 1 ELSE h.burst,
             admitted |-> IF first /\ allowed THEN h.admitted + 1 ELSE h.admitted,
             prevT |-> h.lastT, prevOk |-> h.lastOk, lastT |-> t, lastOk |-> allowed]

RECURSIVE SumChecks(_)
SumChecks(keys) ==
    IF keys = {} THEN 0
    ELSE LET k == CHOOSE x \in keys : TRUE IN rlHist[k].n + SumChecks(keys \ {k})

RlChecks == SumChecks(DOMAIN rlHist)

RlCheck ==
    \E key \in RlKeys :
        LET r == RateLimiter_check(rlBuckets, Capacity, key, rlNow)
        IN /\ RlChecks < MaxChecks
           /\ rlBuckets' = r.buckets
           /\ rlHist' = (key :> RlSeen(key, rlNow, r.allowed)) @@ rlHist
           /\ UNCHANGED <<rlNow, svcVars, codecVars, auxVars>>

RlTick ==
    /\ rlNow < MaxRlTime
    /\ rlNow' = rlNow + 1
    /\ UNCHANGED <<rlBuckets, rlHist, svcVars, codecVars, auxVars>>

RlNext == RlCheck \/ RlTick

SpecRL == Init /\ [][RlNext]_vars

(***************************************************************************)
(* Properties of the service                                               *)
(***************************************************************************)
LoginKey(username, ip) == login_key(username, ip)

\* The bucket of key held one whole token when the call was made
HadBudget(key) ==
    key \in DOMAIN pre.buckets =>
        Min(pre.buckets[key].capacity * RefillPeriod,
            pre.buckets[key].tokens + (pre.now - pre.buckets[key].last_refill)) >= RefillPeriod

Registered(username) == _norm_username(username) \in DOMAIN byName
UserOf(username) == users[byName[_norm_username(username)]]
WasRegistered(username) == _norm_username(username) \in DOMAIN pre.byName
UserWas(username) == pre.users[pre.byName[_norm_username(username)]]
Federated(u) == u.password_hash.algorithm = "google_oauth"

CorrectPassword(u, pw) ==
    /\ ~Federated(u)
    /\ u.password_hash.hash = pbkdf2_hmac(pw, u.password_hash.salt, u.password_hash.iterations)

RefreshId(token) == json_at(urlsafe_b64decode(token[2]), "rid")
RefreshExp(token) == json_at(urlsafe_b64decode(token[2]), "exp")

\* The users that held the refresh token id when the call was made
OwnersWere(rid) == {id \in DOMAIN pre.users : rid \in DOMAIN pre.users[id].refresh_tokens}

\* C1: a refresh token handed out by the service is accepted by refresh on its
\* first use, while it is registered with its user and unexpired, and is rejected
\* with TokenError on every later use.
C1_RefreshRotates ==
    (last.op = "refresh" /\ last.args[1] \in pre.issuedRefresh) =>
        IF OwnersWere(RefreshId(last.args[1])) # {} /\ pre.now <= RefreshExp(last.args[1])
        THEN last.out.ok
        ELSE ~last.out.ok /\ last.out.error = "TokenError"

\* C2 as stated: every login of a password user with the correct password succeeds.
C2_EveryCorrectLoginSucceeds ==
    (/\ last.op = "login"
     /\ WasRegistered(last.args[1])
     /\ CorrectPassword(UserWas(last.args[1]), last.args[2])) => last.out.ok

\* C2: a login of a password user with the correct password succeeds exactly when
\* the rate limiter still has budget for (username, ip), and the access token and
\* the refresh token it returns were returned by no earlier call.
C2_AdmittedLoginSucceeds ==
    (/\ last.op = "login"
     /\ WasRegistered(last.args[1])
     /\ CorrectPassword(UserWas(last.args[1]), last.args[2])) =>
        /\ last.out.ok <=> HadBudget(LoginKey(last.args[1], last.args[3]))
        /\ last.out.ok =>
              /\ last.out.value.access_token \notin {t.token : t \in pre.issuedAccess}
              /\ last.out.value.refresh_token \notin pre.issuedRefresh

C2_Witness ==
    /\ last.op = "login" /\ last.out.ok
    /\ metrics.logins >= 2
    /\ Cardinality(issuedRefresh) >= 2

\* C3: every failing login returns the error kind InvalidCredentials with the one
\* message "Invalid credentials"; a login without rate-limit budget fails so before
\* the user is looked up: nothing of the repository or the failure counter changes.
C3_UniformLoginFailure ==
    last.op = "login" =>
        /\ ~last.out.ok =>
              /\ last.out.error = "InvalidCredentials"
              /\ last.out.msg = "Invalid credentials"
        /\ ~HadBudget(LoginKey(last.args[1], last.args[3])) =>
              /\ ~last.out.ok
              /\ <<users, byName, byId, byEmail, nextId, metrics>>
                    = <<pre.users, pre.byName, pre.byId, pre.byEmail, pre.nextId, pre.metrics>>

C3_Witness ==
    /\ last.op = "login" /\ ~last.out.ok
    /\ audit[Len(audit)].action = "login.rate_limited"
    /\ metrics.failed_logins >= 1
    /\ \E id \in DOMAIN users : Federated(users[id])

\* C4: over every call, a user holding the federated sentinel keeps it and keeps
\* its name, and every password login for that user fails with InvalidCredentials.
C4_FederatedNeverLogsIn ==
    last.op # "idle" =>
        /\ \A id \in DOMAIN pre.users :
              Federated(pre.users[id]) => id \in DOMAIN users /\ Federated(users[id])
        /\ \A n \in DOMAIN pre.byName :
              Federated(pre.users[pre.byName[n]]) =>
                  n \in DOMAIN byName /\ byName[n] = pre.byName[n]
        /\ (/\ last.op = "login"
            /\ WasRegistered(last.args[1])
            /\ Federated(UserWas(last.args[1]))) =>
              /\ ~last.out.ok
              /\ last.out.error = "InvalidCredentials"

C4_Witness ==
    /\ last.op = "login" /\ last.args[2] = PW_empty /\ ~last.out.ok
    /\ Registered(last.args[1])
    /\ Federated(UserOf(last.args[1]))
    /\ "admin" \in UserOf(last.args[1]).roles
    /\ audit[Len(audit)].action = "login.fail"

\* The passwords the policy turns away
Rejected(pw) == Len(pw) < 10 \/ ~enforce_password_policy(pw).ok

\* C10 as stated: a registration with a rejected password fails with
\* PasswordPolicyError.
C10_RejectedIsPolicyError ==
    (last.op = "register" /\ Rejected(last.args[3])) =>
        ~last.out.ok /\ last.out.error = "PasswordPolicyError"

\* C10: a registration with a rejected password fails and leaves the repository
\* indexes, the id counter, the audit log and the metrics as they were; when the
\* username is not blank and the email is well formed the error is
\* PasswordPolicyError.
C10_PolicyGate ==
    (last.op = "register" /\ Rejected(last.args[3])) =>
        /\ ~last.out.ok
        /\ <<users, byName, byId, byEmail, nextId, audit, metrics>>
              = <<pre.users, pre.byName, pre.byId, pre.byEmail, pre.nextId, pre.audit,
                  pre.metrics>>
        /\ (_norm_username(last.args[1]) # <<>> /\ validate_email(last.args[2])) =>
              last.out.error = "PasswordPolicyError"

C10_Witness ==
    /\ last.op = "register" /\ last.args[3] = PW_short
    /\ ~last.out.ok /\ last.out.error = "PasswordPolicyError"
    /\ DOMAIN users # {}

PermUniverse == PermInputs \cup {"read:self", "read:any"}

Expired == Err("TokenError", "Expired access token")

\* What require answers for an issued token if only the claims written into it at
\* issuance and the clock count
SnapshotOutcome(t, p) ==
    IF t.claims.exp < now THEN Expired
    ELSE IF p \in SeqSet(t.claims.permissions) THEN Ok(t.claims)
    ELSE Err("PermissionDenied", p)

\* C6: after grant_permission or assign_role every issued token is answered by
\* require as the permissions written into it at issuance say; so is every
\* require call made; and a token carries all the permissions its user has at
\* the moment of issuance.
C6_PermissionSnapshot ==
    /\ last.op \in {"grant_permission", "assign_role"} =>
          \A t \in issuedAccess : \A p \in PermUniverse :
              require(t.token, p, now) = SnapshotOutcome(t, p)
    /\ last.op = "require" =>
          \A t \in issuedAccess :
              t.token = last.args[1] => last.out = SnapshotOutcome(t, last.args[2])
    /\ (last.op \in {"login", "google"} /\ last.out.ok) =>
          SeqSet(verify_access_token(last.out.value.access_token, now).value.permissions)
              = User_all_permissions(users[last.out.value.user_id])

C6_Witness ==
    /\ last.op = "require" /\ last.args[2] = "audit:read"
    /\ ~last.out.ok /\ last.out.error = "PermissionDenied"
    /\ \E t1, t2 \in issuedAccess :
          /\ t1.token = last.args[1]
          /\ t2.claims.user_id = t1.claims.user_id
          /\ "audit:read" \in SeqSet(t2.claims.permissions)
          /\ require(t2.token, "audit:read", now).ok

AuditCount(action, u) ==
    Cardinality({i \in DOMAIN audit : audit[i].action = action /\ audit[i].username = u})

\* C7: after register, login and verify on a fresh service the audit log holds one
\* "register" and one "login.success" event for the user, in that order, and
\* nothing else; in any state no "login.success" of a user precedes its "register".
C7_AuditOrder ==
    /\ scen.st \in {"loggedin", "verified"} =>
          /\ AuditCount("register", scen.u) = 1
          /\ AuditCount("login.success", scen.u) = 1
          /\ Len(audit) = 2
          /\ audit[1].action = "register"
          /\ audit[2].action = "login.success"
    /\ \A i, j \in DOMAIN audit :
          (i < j /\ audit[j].action = "register" /\ audit[i].action = "login.success")
              => audit[i].username # audit[j].username

C7_Witness ==
    /\ scen.st = "verified"
    /\ last.op = "verify" /\ last.out.ok
    /\ last.out.value.sub = scen.u

\* C8: for every access token handed out, verify_access_token fails with
\* TokenError when the clock is past the token's expiry and returns the claims
\* written at issuance otherwise, in every state reached by other operations;
\* a token not signed with the service's key is never accepted.
C8_ExpiryOnly ==
    /\ \A t \in issuedAccess :
          verify_access_token(t.token, now) = IF now > t.claims.exp THEN Expired ELSE Ok(t.claims)
    /\ \A tok \in AccessPresentable \ {t.token : t \in issuedAccess} :
          ~verify_access_token(tok, now).ok
    /\ (last.op = "verify" /\ ~last.out.ok) => last.out.error = "TokenError"
    /\ (last.op = "verify" /\ last.out.ok) =>
          \E t \in issuedAccess :
              t.token = last.args[1] /\ t.claims = last.out.value /\ now <= t.claims.exp

C8_Witness ==
    /\ last.op = "verify" /\ ~last.out.ok
    /\ \E t1, t2 \in issuedAccess :
          /\ t1.token = last.args[1]
          /\ now = t1.claims.exp + 1
          /\ now <= t2.claims.exp
          /\ verify_access_token(t2.token, now).ok

(***************************************************************************)
(* Properties of the rate limiter and of the codec                         *)
(***************************************************************************)
\* C5: of the checks made on a key in the instant its bucket is created, the
\* first Capacity are admitted and the later ones denied; a check made at least
\* one refill period after a denied check on the same key is admitted.
C5_BurstThenRefill ==
    \A k \in DOMAIN rlHist :
        /\ rlHist[k].admitted = Min(rlHist[k].burst, Capacity)
        /\ (~rlHist[k].prevOk /\ rlHist[k].lastT >= rlHist[k].prevT + RefillPeriod)
               => rlHist[k].lastOk

C5_Witness ==
    \E k \in DOMAIN rlHist :
        /\ rlHist[k].burst = Capacity + 1
        /\ rlHist[k].admitted = Capacity
        /\ ~rlHist[k].prevOk
        /\ rlHist[k].lastT = rlHist[k].prevT + RefillPeriod
        /\ rlHist[k].lastOk

Decoded == CHOOSE r \in cOut.res : TRUE

SignatureMatches(token) ==
    token[3] = base64url(hmac_sha256(SigningKey, <<token[1], token[2]>>))

\* C9: decoding the encoding of a claims object returns equal claims; decoding a
\* token whose signature segment was replaced by a different value fails with
\* TokenError, and claims are only ever returned for a token whose signature
\* matches its header and payload.
C9_RoundTrip ==
    cOut.res # {} =>
        /\ ~cOut.tampered => Decoded = Ok(TheClaims)
        /\ cOut.tampered => ~Decoded.ok /\ Decoded.error = "TokenError"
        /\ Decoded.ok => SignatureMatches(cToken)

C9_Witness ==
    /\ cOut.res # {} /\ cOut.tampered
    /\ cToken[2] = TokenCodec_encode(SigningKey, TheClaims)[2]
    /\ ~Decoded.ok
    /\ TheClaims.user_id # None

(***************************************************************************)
(* Properties of the repository                                            *)
(***************************************************************************)
\* trimmed, lower-cased, whitespace removed
Normal(name) == SelectSeq(str_lower(str_strip(name)), NotSpace)

NamesWere == {Normal(pre.users[pre.byName[n]].username) : n \in DOMAIN pre.byName}

\* C11: a registration that reaches the repository with a username whose normal
\* form is that of a stored user fails with UserAlreadyExists and leaves the user
\* records and the three indexes as they were; add refuses every stored record.
C11_DuplicateUsername ==
    /\ (/\ last.op = "register"
        /\ Normal(last.args[1]) \in NamesWere
        /\ validate_email(last.args[2])
        /\ ~Rejected(last.args[3])) =>
          /\ ~last.out.ok
          /\ last.out.error = "UserAlreadyExists"
          /\ <<users, byName, byId, byEmail>> = <<pre.users, pre.byName, pre.byId, pre.byEmail>>
    /\ \A n \in DOMAIN byName :
          LET r == InMemoryUserRepository_add(Repo, users[byName[n]])
          IN ~r.ok /\ r.error = "UserAlreadyExists"

C11_Witness ==
    /\ last.op = "register" /\ last.args[1] = U_A
    /\ ~last.out.ok /\ last.out.error = "UserAlreadyExists"
    /\ users[byName[<<"a">>]].username = <<"a">>
    /\ users = pre.users

(***************************************************************************)
(* The repository under registrations and federated sign-ins, two of the   *)
(* registrations giving one email address                                  *)
(***************************************************************************)
RepoRegisterInputs ==
    { <<U_a, E_a, PW_good>>, <<U_A, E_A, PW_good>>, <<U_b, E_A, PW_good>> }

RepoGoogleUsers ==
    { [google_id |-> "g1", email |-> E_b, email_verified |-> TRUE],
      [google_id |-> "g3", email |-> E_A, email_verified |-> TRUE] }

RegisterRepo ==
    /\ last = Idle
    /\ \E i \in RepoRegisterInputs : register_user(i[1], i[2], i[3])
    /\ pre' = Snapshot
    /\ UNCHANGED otherVars

GoogleSignInRepo ==
    /\ last = Idle
    /\ \E g \in RepoGoogleUsers : authenticate_with_code(g)
    /\ pre' = Snapshot
    /\ UNCHANGED otherVars

RepoNext == RegisterRepo \/ GoogleSignInRepo \/ AssignRole \/ GrantPermission \/ Return

SpecRepo == Init /\ [][RepoNext]_vars

\* The user records the repository holds
Records == {users[id] : id \in DOMAIN users}

\* C12: no two distinct user records share a normal username, and no two share a
\* lower-cased email.
C12_UniqueNamesAndEmails ==
    \A i, j \in DOMAIN users :
        i # j => /\ Normal(users[i].username) # Normal(users[j].username)
                 /\ str_lower(users[i].email) # str_lower(users[j].email)

UnderName(u) ==
    Normal(u.username) \in DOMAIN byName /\ users[byName[Normal(u.username)]] = u
UnderId(u) == u.id \in DOMAIN byId /\ users[byId[u.id]] = u
UnderEmail(u) ==
    str_lower(u.email) \in DOMAIN byEmail /\ users[byEmail[str_lower(u.email)]] = u

\* C13: a user record is under its normal username exactly when it is under its
\* id and under its lower-cased email.
C13_IndexesConsistent ==
    \A u \in Records : UnderName(u) <=> (UnderId(u) /\ UnderEmail(u))


(***************************************************************************)
(* Threads sharing one service: registrations                              *)
(***************************************************************************)
\* Each thread makes one call, register_user or a Google sign-in.  A step is one
\* repository call (each runs under the repository's lock) together with the
\* thread-local work that follows it.
NThreads == 2
Threads == 1..NThreads

Thread0 ==
    [pc |-> "idle", op |-> "none", in |-> <<>>, name |-> <<>>, hash |-> <<>>,
     id |-> 0, n |-> 0, out |-> {}]

ThreadsIdle == [t \in Threads |-> Thread0]

InitIds ==
    /\ SvcInit /\ CodecIdle /\ RlIdle
    /\ al = <<>> /\ th = ThreadsIdle /\ assigned = <<>> /\ took = 0 /\ attempts = <<>> /\ ledger = Ledger0

idsFrame == <<codecVars, rlVars, al, took, attempts, ledger, last, scen, pre, buckets, now>>

\* register_user up to the hash: the checks, then PasswordHasher.hash
reg_begin(t, username, email, password) ==
    LET uname == _norm_username(username)
        early == IF uname = <<>> THEN Err("AuthError", "Username cannot be empty")
                 ELSE IF ~validate_email(email) THEN Err("AuthError", "Invalid email format")
                 ELSE enforce_password_policy(password)
    IN /\ th[t].pc = "idle"
       /\ IF ~early.ok
          THEN /\ th' = [th EXCEPT ![t] = [@ EXCEPT !.pc = "done", !.op = "register",
                                                     !.out = {early}]]
               /\ UNCHANGED entropy
          ELSE /\ entropy < MaxDraws
               /\ entropy' = entropy + 1
               /\ th' = [th EXCEPT ![t] =
                            [@ EXCEPT !.pc = "next_id", !.op = "register",
                                      !.in = <<username, email, password>>,
                                      !.name = uname,
                                      !.hash = PasswordHasher_hash(password,
                                                   <<"salt", entropy + 1>>)]]
       /\ UNCHANGED <<repoVars, audit, metrics, issuedVars, assigned, idsFrame>>

\* self.repo._next_id(), of either caller
thread_next_id(t) ==
    LET drawn == InMemoryUserRepository_next_id(nextId)
    IN /\ th[t].pc = "next_id"
       /\ nextId' = drawn.next
       /\ assigned' = Append(assigned, drawn.id)
       /\ th' = [th EXCEPT ![t] = [@ EXCEPT !.id = drawn.id,
                    !.pc = IF th[t].op = "register" THEN "add" ELSE "save"]]
       /\ UNCHANGED <<users, byName, byId, byEmail, audit, metrics, entropy, issuedVars,
                      idsFrame>>

\* self.repo.add(user), and the read of metrics.registrations that follows
reg_add(t) ==
    LET user == NewUser(th[t].id, th[t].name, str_lower(str_strip(th[t].in[2])),
                        th[t].hash, now)
        added == InMemoryUserRepository_add(Repo, user)
    IN /\ th[t].pc = "add"
       /\ IF ~added.ok
          THEN /\ th' = [th EXCEPT ![t] = [@ EXCEPT !.pc = "done", !.out = {added}]]
               /\ UNCHANGED <<users, byName, byId, byEmail>>
          ELSE /\ users' = (user.id :> user) @@ users
               /\ SetRepo(added.value)
               /\ th' = [th EXCEPT ![t] = [@ EXCEPT !.pc = "count",
                                                     !.n = metrics.registrations]]
       /\ UNCHANGED <<nextId, audit, metrics, entropy, issuedVars, assigned, idsFrame>>

\* metrics.registrations += 1 (the write), then audit.record
reg_finish(t) ==
    /\ th[t].pc = "count"
    /\ metrics' = [metrics EXCEPT !.registrations = th[t].n + 1]
    /\ audit' = AuditLog_record(audit, AuditCapacity,
                    AuditEvent(now, "register", th[t].name, "user created"))
    /\ th' = [th EXCEPT ![t] = [@ EXCEPT !.pc = "done", !.out = {Ok(th[t].id)}]]
    /\ UNCHANGED <<repoVars, entropy, issuedVars, assigned, idsFrame>>

\* authenticate_with_code up to repo.find_by_email
google_begin(t, g) ==
    LET key == str_lower(g.email)
    IN /\ th[t].pc = "idle"
       /\ th' = [th EXCEPT ![t] =
             IF email_not_verified(g)
             THEN [@ EXCEPT !.pc = "done", !.op = "google",
                            !.out = {Err("GoogleAuthError", "Google email not verified")}]
             ELSE IF key \in DOMAIN byEmail
             THEN [@ EXCEPT !.pc = "login", !.op = "google", !.in = <<g>>,
                            !.id = byEmail[key]]
             ELSE [@ EXCEPT !.pc = "name", !.op = "google", !.in = <<g>>, !.n = 0]]
       /\ UNCHANGED <<repoVars, audit, metrics, entropy, issuedVars, assigned, idsFrame>>

\* one turn of the loop of _generate_username_from_email: find_by_username
google_name(t) ==
    LET base == SelectSeq(str_lower(local_part(th[t].in[1].email)), IsLowerAlnum)
        username == IF th[t].n = 0 THEN base ELSE base \o str_of_int(th[t].n)
    IN /\ th[t].pc = "name"
       /\ th' = [th EXCEPT ![t] =
             IF InMemoryUserRepository_has(Repo, username)
             THEN [@ EXCEPT !.n = @ + 1]
             ELSE [@ EXCEPT !.pc = "next_id", !.name = username]]
       /\ UNCHANGED <<repoVars, audit, metrics, entropy, issuedVars, assigned, idsFrame>>

\* _register_google_user after _next_id: repo.save, then audit.record
google_save(t) ==
    LET user == GoogleUser(th[t].id, th[t].name, th[t].in[1], now)
    IN /\ th[t].pc = "save"
       /\ users' = (user.id :> user) @@ users
       /\ SetRepo(InMemoryUserRepository_save(Repo, user))
       /\ audit' = AuditLog_record(audit, AuditCapacity,
                       AuditEvent(now, "user_registered_google", user.username,
                                  th[t].in[1].email))
       /\ th' = [th EXCEPT ![t] = [@ EXCEPT !.pc = "login"]]
       /\ UNCHANGED <<nextId, metrics, entropy, issuedVars, assigned, idsFrame>>

\* _create_login_result_for_user
google_login(t) ==
    LET u1 == [users[th[t].id] EXCEPT !.last_login = Some(now)]
        jwt == _issue_access_token(u1, now, entropy + 1)
        rt == _issue_refresh_token(u1, now, entropy + 2)
    IN /\ th[t].pc = "login"
       /\ entropy + 2 <= MaxDraws
       /\ users' = (u1.id :> u1) @@ users
       /\ SetRepo(InMemoryUserRepository_save(Repo, u1))
       /\ entropy' = entropy + 2
       /\ metrics' = [metrics EXCEPT !.token_issues = @ + 1]
       /\ audit' = AuditLog_record(audit, AuditCapacity,
                       AuditEvent(now, "user_login_google", u1.username, ""))
       /\ issuedAccess' = issuedAccess \cup
              {[token |-> jwt, claims |-> AccessClaims(u1, now, entropy + 1)]}
       /\ issuedRefresh' = issuedRefresh \cup {rt[1]}
       /\ th' = [th EXCEPT ![t] = [@ EXCEPT !.pc = "done",
                                             !.out = {Ok(LoginResult(jwt, rt, u1))}]]
       /\ UNCHANGED <<nextId, assigned, idsFrame>>

RegBegin == \E t \in Threads, i \in RepoRegisterInputs : reg_begin(t, i[1], i[2], i[3])
NextId == \E t \in Threads : thread_next_id(t)
RegAdd == \E t \in Threads : reg_add(t)
RegFinish == \E t \in Threads : reg_finish(t)
GoogleBegin == \E t \in Threads, g \in RepoGoogleUsers : google_begin(t, g)
GoogleName == \E t \in Threads : google_name(t)
GoogleSave == \E t \in Threads : google_save(t)
GoogleLogin == \E t \in Threads : google_login(t)

IdsNext ==
    \/ RegBegin \/ NextId \/ RegAdd \/ RegFinish
    \/ GoogleBegin \/ GoogleName \/ GoogleSave \/ GoogleLogin

SpecIds == InitIds /\ [][IdsNext]_vars

\* The threads that hold a record they created, with the id it carries
Creators ==
    {t \in Threads : \/ th[t].pc \in {"add", "save", "count"}
                     \/ th[t].pc \in {"login", "done"} /\ th[t].name # <<>> /\ th[t].id # 0}

\* C14: the ids _next_id hands out are strictly increasing in the order handed
\* out; no two records created by concurrent register_user and Google
\* registrations carry the same id; and a record found under an id is the record
\* of the thread that drew that id, still carrying it, whatever the other threads
\* have done since.
C14_IdsUniqueMonotonic ==
    /\ \A i, j \in 1..Len(assigned) : i < j => assigned[i] < assigned[j]
    /\ \A s, t \in Creators : s # t => th[s].id # th[t].id
    /\ \A i \in DOMAIN users :
          /\ users[i].id = i
          /\ \A t \in Creators : th[t].id = i => users[i].username = th[t].name

\* A register_user thread and a Google sign-in thread have run side by side, each
\* drew an id, and both records are stored.
C14_Witness ==
    /\ Len(assigned) >= 2
    /\ \E s, t \in Threads :
          /\ s # t /\ th[s].op = "register" /\ th[t].op = "google"
          /\ th[s].pc = "done" /\ th[t].pc = "done"
          /\ th[s].id > th[t].id /\ th[t].id > 0
          /\ {th[s].id, th[t].id} \subseteq DOMAIN users


(***************************************************************************)
(* Threads sharing one AuditLog                                            *)
(***************************************************************************)
\* al.heap holds the list objects, al.lock the thread inside "with self._lock"
\* (0 when free), al.recorded every event appended so far, in order.
MaxRecords == 4
AuditActions == {"register", "login.success"}

LogThread0 == [pc |-> "idle", ev |-> {}, ref |-> {}, seen |-> <<>>]

InitAudit ==
    /\ SvcInit /\ CodecIdle /\ RlIdle
    /\ al = [heap |-> (EventsRef :> <<>>), lock |-> 0, recorded |-> <<>>]
    /\ th = [t \in Threads |-> LogThread0]
    /\ assigned = <<>> /\ took = 0 /\ attempts = <<>> /\ ledger = Ledger0

logFrame == <<svcVars, codecVars, rlVars, assigned, took, attempts, ledger>>

\* record(event): with self._lock
record_acquire(t, ev) ==
    /\ th[t].pc = "idle" /\ al.lock = 0
    /\ Len(al.recorded) < MaxRecords
    /\ al' = [al EXCEPT !.lock = t]
    /\ th' = [th EXCEPT ![t] = [@ EXCEPT !.pc = "append", !.ev = {ev}]]
    /\ UNCHANGED logFrame

record_append(t) ==
    /\ th[t].pc = "append"
    /\ \E ev \in th[t].ev :
          al' = [al EXCEPT !.heap[EventsRef] = AuditLog_append(@, ev),
                           !.recorded = Append(@, ev)]
    /\ th' = [th EXCEPT ![t] = [@ EXCEPT !.pc = "evict"]]
    /\ UNCHANGED logFrame

\* the capacity check, the pop, and the lock released on leaving the block
record_evict(t) ==
    /\ th[t].pc = "evict"
    /\ al' = [al EXCEPT !.heap[EventsRef] = AuditLog_evict(@, AuditCapacity),
                        !.lock = 0]
    /\ th' = [th EXCEPT ![t] = [@ EXCEPT !.pc = "idle", !.ev = {}]]
    /\ UNCHANGED logFrame

\* list(): with self._lock
list_acquire(t) ==
    /\ th[t].pc = "idle" /\ al.lock = 0
    /\ al' = [al EXCEPT !.lock = t]
    /\ th' = [th EXCEPT ![t] = [@ EXCEPT !.pc = "copy"]]
    /\ UNCHANGED logFrame

\* return list(self._events); the caller keeps the list it was given.  seen
\* remembers what the log held when the copy was made.
list_copy(t) ==
    LET r == AuditLog_list(al.heap, t)
    IN /\ th[t].pc = "copy"
       /\ al' = [al EXCEPT !.heap = r.heap, !.lock = 0]
       /\ th' = [th EXCEPT ![t] = [@ EXCEPT !.pc = "idle", !.ref = {r.ref},
                                             !.seen = al.heap[EventsRef]]]
       /\ UNCHANGED logFrame

RecordAcquire ==
    \E t \in Threads, a \in AuditActions :
        record_acquire(t, AuditEvent(Len(al.recorded), a, <<>>, ""))
RecordAppend == \E t \in Threads : record_append(t)
RecordEvict == \E t \in Threads : record_evict(t)
ListAcquire == \E t \in Threads : list_acquire(t)
ListCopy == \E t \in Threads : list_copy(t)

AuditNext == RecordAcquire \/ RecordAppend \/ RecordEvict \/ ListAcquire \/ ListCopy

SpecAudit == InitAudit /\ [][AuditNext]_vars

\* The last n elements of a sequence
LastN(q, n) == IF Len(q) <= n THEN q ELSE SubSeq(q, Len(q) - n + 1, Len(q))

\* C15: whenever no record call is inside the lock, the log holds at most
\* capacity events and equals the most recent min(n, capacity) of the n events
\* recorded so far, in arrival order; inside a record call it holds at most one
\* event more, the one just appended.
C15_BoundedFifo ==
    /\ al.lock = 0 =>
          /\ Len(al.heap[EventsRef]) <= AuditCapacity
          /\ al.heap[EventsRef] = LastN(al.recorded, AuditCapacity)
    /\ Len(al.heap[EventsRef]) <= AuditCapacity + 1
    /\ \A events \in {al.heap[EventsRef]}, a \in AuditActions :
          Len(events) <= AuditCapacity =>
              AuditLog_record(events, AuditCapacity, AuditEvent(0, a, <<>>, ""))
                  = AuditLog_evict(AuditLog_append(events, AuditEvent(0, a, <<>>, "")),
                                   AuditCapacity)

\* More events than the capacity have been recorded and the oldest are gone.
C15_Witness ==
    /\ al.lock = 0
    /\ Len(al.recorded) > AuditCapacity
    /\ Len(al.heap[EventsRef]) = AuditCapacity
    /\ al.heap[EventsRef][1] = al.recorded[Len(al.recorded) - AuditCapacity + 1]

\* The lists callers of list() hold
Held == {t \in Threads : th[t].ref # {}}
ListOf(t) == al.heap[CHOOSE r \in th[t].ref : TRUE]

\* C16: a list returned by list() still holds what the log held when the copy was
\* made, whatever has been recorded or evicted since, and that content is the
\* log as it stood after some whole number of record calls.
C16_ListIsSnapshot ==
    \A t \in Held :
        /\ ListOf(t) = th[t].seen
        /\ \E k \in 0..Len(al.recorded) :
              ListOf(t) = LastN(SubSeq(al.recorded, 1, k), AuditCapacity)

\* A caller holds a full list whose events have all been evicted from the log since.
C16_Witness ==
    \E t \in Held :
        /\ Len(ListOf(t)) = AuditCapacity
        /\ \A i \in DOMAIN ListOf(t), j \in DOMAIN al.heap[EventsRef] :
              ListOf(t)[i] # al.heap[EventsRef][j]
        /\ al.lock = 0


(***************************************************************************)
(* The minimum-delay pad                                                   *)
(***************************************************************************)
MinLoginDelayMs == 120    \* min_login_delay_ms

\* _ensure_min_delay(start), called elapsed milliseconds after start: the
\* milliseconds after start at which it returns (time.sleep(remain / 1000) taken
\* to sleep exactly that long)
_ensure_min_delay(elapsed) ==
    LET remain == MinLoginDelayMs - elapsed
    IN IF remain > 1 THEN elapsed + remain ELSE elapsed

\* Milliseconds the work of a call takes, the pad aside
WorkMs == {0, 119, 150}

\* register_user calls _ensure_min_delay on the one path that returns the user.
RegisterTimed ==
    /\ last = Idle
    /\ \E i \in RegisterInputs, w \in WorkMs :
          /\ register_user(i[1], i[2], i[3])
          /\ took' = IF last'.out.ok THEN _ensure_min_delay(w) ELSE w
    /\ pre' = Snapshot
    /\ UNCHANGED <<codecVars, rlVars, al, th, assigned, attempts, ledger>>

\* login calls _ensure_min_delay after recording "login.fail" or "login.success";
\* the path that records "login.rate_limited" raises without it.
LoginTimed ==
    /\ last = Idle
    /\ \E u \in LoginUsers, p \in LoginPasswords, ip \in IPs, w \in WorkMs :
          /\ login(u, p, ip)
          /\ took' = IF audit'[Len(audit')].action = "login.rate_limited"
                     THEN w ELSE _ensure_min_delay(w)
    /\ pre' = Snapshot
    /\ UNCHANGED <<codecVars, rlVars, al, th, assigned, attempts, ledger>>

DelayNext == RegisterTimed \/ LoginTimed \/ Return

SpecDelay == Init /\ [][DelayNext]_vars

\* C17: no login or register_user call, whatever its outcome, completes earlier
\* than min_login_delay_ms after it started.
C17_MinDelayEveryPath ==
    last.op \in {"login", "register"} => took >= MinLoginDelayMs


(***************************************************************************)
(* Refresh tokens over their whole life                                    *)
(***************************************************************************)
\* The second after the expiry of a refresh token handed out
RefreshInstants == {RefreshExp(t) + 1 : t \in issuedRefresh}

AdvancePastRefresh ==
    /\ last = Idle
    /\ \E t \in RefreshInstants : Tick(t)
    /\ UNCHANGED otherVars

RefreshNext == RegisterAlice \/ LoginAlice \/ Refresh \/ AdvancePastRefresh \/ Return

SpecRefresh == Init /\ [][RefreshNext]_vars

\* The token has three parts and its third is the service's signature of its second
RefreshSigned(token) ==
    /\ Len(token) = 3
    /\ token[3] = base64url(hmac_sha256(SigningKey, urlsafe_b64decode(token[2])))

\* C18: a refresh call fails with TokenError whenever the token presented does not
\* carry the service's signature, or the clock is past the expiry it states, or
\* no user holds the refresh id it states.
C18_RefreshRejects ==
    (/\ last.op = "refresh"
     /\ \/ ~RefreshSigned(last.args[1])
        \/ pre.now > RefreshExp(last.args[1])
        \/ OwnersWere(RefreshId(last.args[1])) = {}) =>
        /\ ~last.out.ok
        /\ last.out.error = "TokenError"

\* A signed refresh token still held by its user is presented after its expiry.
C18_Witness ==
    /\ last.op = "refresh"
    /\ last.args[1] \in pre.issuedRefresh
    /\ OwnersWere(RefreshId(last.args[1])) # {}
    /\ pre.now > RefreshExp(last.args[1])
    /\ last.out = Err("TokenError", "Refresh expired")


(***************************************************************************)
(* Threads sharing one service: refresh                                    *)
(***************************************************************************)
\* A user registers and logs in; then each thread presents a refresh token that
\* was handed out.  A step is one access to the shared user record.
RefreshThread0 == [pc |-> "idle", tok |-> <<>>, rid |-> <<>>, uid |-> 0, out |-> {}]

InitRace ==
    /\ SvcInit /\ CodecIdle /\ RlIdle
    /\ al = <<>> /\ th = [t \in Threads |-> RefreshThread0]
    /\ assigned = <<>> /\ took = 0 /\ attempts = <<>> /\ ledger = Ledger0

raceFrame == <<codecVars, rlVars, al, assigned, took, attempts, ledger, last, scen, pre, buckets, now>>

\* The try block and the expiry check
refresh_begin(t, token) ==
    LET p == parse_refresh(token)
    IN /\ th[t].pc = "idle"
       /\ th' = [th EXCEPT ![t] =
             IF ~p.ok THEN [@ EXCEPT !.pc = "done", !.tok = token, !.out = {p}]
             ELSE IF now > p.value.exp
             THEN [@ EXCEPT !.pc = "done", !.tok = token,
                            !.out = {Err("TokenError", "Refresh expired")}]
             ELSE [@ EXCEPT !.pc = "lookup", !.tok = token, !.rid = p.value.rid]]
       /\ UNCHANGED <<repoVars, audit, metrics, entropy, issuedVars, raceFrame>>

\* The search: repo.get(candidate_name) and "rid in candidate.refresh_tokens"
refresh_lookup(t) ==
    /\ th[t].pc = "lookup"
    /\ th' = [th EXCEPT ![t] =
          IF RefreshOwners(th[t].rid) = {}
          THEN [@ EXCEPT !.pc = "done",
                         !.out = {Err("TokenError", "Unknown refresh token")}]
          ELSE [@ EXCEPT !.pc = "pop",
                         !.uid = CHOOSE i \in RefreshOwners(th[t].rid) : TRUE]]
    /\ UNCHANGED <<repoVars, audit, metrics, entropy, issuedVars, raceFrame>>

\* user.refresh_tokens.pop(rid, None)
refresh_pop(t) ==
    /\ th[t].pc = "pop"
    /\ users' = [users EXCEPT ![th[t].uid].refresh_tokens =
                    IF RotateRefreshOnUse THEN MapRemove(@, th[t].rid) ELSE @]
    /\ th' = [th EXCEPT ![t] = [@ EXCEPT !.pc = "issue"]]
    /\ UNCHANGED <<byName, byId, byEmail, nextId, audit, metrics, entropy, issuedVars,
                   raceFrame>>

\* "jwt, claims = self._issue_access_token(user)": the token is made, then the
\* unpacking raises and the call ends.
refresh_issue(t) ==
    /\ th[t].pc = "issue"
    /\ entropy < MaxDraws
    /\ entropy' = entropy + 1
    /\ metrics' = [metrics EXCEPT !.token_issues = @ + 1]
    /\ th' = [th EXCEPT ![t] = [@ EXCEPT !.pc = "done", !.out = {UnpackError}]]
    /\ UNCHANGED <<repoVars, audit, issuedVars, raceFrame>>

RefreshBegin == \E t \in Threads, tok \in issuedRefresh : refresh_begin(t, tok)
RefreshLookup == \E t \in Threads : refresh_lookup(t)
RefreshPop == \E t \in Threads : refresh_pop(t)
RefreshIssue == \E t \in Threads : refresh_issue(t)

RaceNext ==
    \/ RegisterAlice \/ LoginAlice \/ Return
    \/ RefreshBegin \/ RefreshLookup \/ RefreshPop \/ RefreshIssue

SpecRace == InitRace /\ [][RaceNext]_vars

\* The threads whose refresh call obtained new tokens for the token presented
Succeeded(tok) ==
    {t \in Threads : th[t].pc = "done" /\ th[t].tok = tok /\ \E o \in th[t].out : o.ok}

RequireAny ==
    /\ last = Idle
    /\ \E t \in AccessPresentable, p \in PermInputs \cup {"read:any"} : RequireCall(t, p)
    /\ pre' = Snapshot
    /\ UNCHANGED otherVars

RequireNext ==
    RegisterAlice \/ LoginAlice \/ GrantPermission \/ Advance \/ RequireAny \/ Return

SpecRequire == Init /\ [][RequireNext]_vars

\* The tokens the service handed out that have not expired
LiveTokens == {t \in issuedAccess : now <= t.claims.exp}

\* C20: require answers TokenError, never PermissionDenied, for a token that the
\* service did not hand out or that has expired, whatever permission is asked;
\* PermissionDenied for a live token whose embedded list lacks the permission;
\* and the token's claims for a live token whose list holds it.
C20_VerifyThenPermission ==
    last.op = "require" =>
        IF \A t \in LiveTokens : t.token # last.args[1]
        THEN ~last.out.ok /\ last.out.error = "TokenError"
        ELSE \A t \in LiveTokens :
                t.token = last.args[1] =>
                    IF last.args[2] \in SeqSet(t.claims.permissions)
                    THEN last.out = Ok(t.claims)
                    ELSE ~last.out.ok /\ last.out.error = "PermissionDenied"

\* An expired token whose list lacks the permission asked is answered TokenError.
C20_Witness ==
    /\ last.op = "require"
    /\ \E t \in issuedAccess :
          /\ t.token = last.args[1]
          /\ now > t.claims.exp
          /\ last.args[2] \notin SeqSet(t.claims.permissions)
    /\ ~last.out.ok /\ last.out.error = "TokenError"


(***************************************************************************)
(* Google sign-in beside password registration                             *)
(***************************************************************************)
GoogleIdentities ==
    RepoGoogleUsers \cup
        { [google_id |-> "g2", email |-> E_a, email_verified |-> FALSE],
          [google_id |-> "g4", email |-> <<"b", "@", "y", ".", "c", "o">>,
           email_verified |-> TRUE] }

GoogleSignInAny ==
    /\ last = Idle
    /\ \E g \in GoogleIdentities : authenticate_with_code(g)
    /\ pre' = Snapshot
    /\ UNCHANGED otherVars

GoogleNext == RegisterRepo \/ GoogleSignInAny \/ Refresh \/ Return

SpecGoogle == Init /\ [][GoogleNext]_vars

\* C21: a Google sign-in whose identity has an unverified email is rejected with
\* GoogleAuthError, and the service is exactly as it was before the call: no user
\* added or changed, no token issued, the indexes and the audit log untouched.
C21_UnverifiedRejected ==
    (last.op = "google" /\ ~last.args[1].email_verified) =>
        /\ ~last.out.ok
        /\ last.out.error = "GoogleAuthError"
        /\ Snapshot = pre

\* The unverified identity carries the email of a registered user.
C21_Witness ==
    /\ last.op = "google" /\ ~last.args[1].email_verified
    /\ str_lower(last.args[1].email) \in DOMAIN byEmail
    /\ ~last.out.ok


\* The call was a Google sign-in that created its user
NewGoogleUser ==
    /\ last.op = "google" /\ last.out.ok
    /\ str_lower(last.args[1].email) \notin DOMAIN pre.byEmail

\* base, base1, base2, ...
Candidate(base, n) == IF n = 0 THEN base ELSE base \o str_of_int(n)

\* name is the first of base, base1, ... that no user had when the call was made
FirstFree(name, base) ==
    \E n \in 0..Cardinality(DOMAIN pre.byName) :
        /\ name = Candidate(base, n)
        /\ name \notin DOMAIN pre.byName
        /\ \A m \in 0..(n - 1) : Candidate(base, m) \in DOMAIN pre.byName

\* C22 as stated: the username given to a new Google user is the first of name,
\* name1, name2, ... that no existing user has, name being the local part of the
\* email.
C22_LocalPartName ==
    NewGoogleUser =>
        FirstFree(last.out.value.username, local_part(last.args[1].email))

\* C22: the username given to a new Google user is the first of name, name1,
\* name2, ... that no existing user has, name being the local part of the email
\* in lower case with every character outside a-z and 0-9 removed; it is the
\* username of no user that existed before, and it is found within as many
\* probes as there are users, plus one.
C22_NormalisedLocalPartName ==
    NewGoogleUser =>
        /\ FirstFree(last.out.value.username,
                     SelectSeq(str_lower(local_part(last.args[1].email)), IsLowerAlnum))
        /\ \A i \in DOMAIN pre.users :
              Normal(pre.users[i].username) # last.out.value.username
        /\ users[last.out.value.user_id].username = last.out.value.username

\* Both name and name1 were taken: the new user is name2.
C22_Witness ==
    /\ NewGoogleUser
    /\ last.out.value.username = <<"b", "2">>
    /\ {<<"b">>, <<"b", "1">>} \subseteq DOMAIN pre.byName


\* C23: a successful Google sign-in returns an access token the service verifies
\* and, as login does, a refresh token string of the form r.payload.signature
\* whose id is recorded in the user's refresh-token map with the expiry now +
\* refresh TTL.
C23_GoogleTokensAsLogin ==
    (last.op = "google" /\ last.out.ok) =>
        /\ verify_access_token(last.out.value.access_token, now).ok
        /\ last.out.value.refresh_token \in issuedRefresh
        /\ \E rt \in issuedRefresh \ pre.issuedRefresh :
              /\ RefreshId(rt) \in DOMAIN users[last.out.value.user_id].refresh_tokens
              /\ users[last.out.value.user_id].refresh_tokens[RefreshId(rt)]
                    = now + RefreshTTL


\* The users whose email, case aside, is the given one
UsersWithEmail(email) == {i \in DOMAIN users : str_lower(users[i].email) = str_lower(email)}

\* C24: a successful Google sign-in returns the user its email is bound to, the
\* same user every later sign-in with that email will find; when the email was
\* bound before the call that user is returned and no user is created; and
\* afterwards the repository holds exactly one user with that email.
C24_SignInIdempotent ==
    (last.op = "google" /\ last.out.ok) =>
        LET key == str_lower(last.args[1].email)
        IN /\ byEmail[key] = last.out.value.user_id
           /\ key \in DOMAIN pre.byEmail =>
                 /\ last.out.value.user_id = pre.byEmail[key]
                 /\ DOMAIN users = DOMAIN pre.users
           /\ Cardinality(UsersWithEmail(last.args[1].email)) = 1


\* The call appended one event to the audit log, of the given actions
Recorded(actions) ==
    /\ audit # <<>>
    /\ audit[Len(audit)].action \in actions
    /\ audit = AuditLog_record(pre.audit, AuditCapacity, audit[Len(audit)])

\* C25: a login that fails for an unknown user, a wrong password or a federated
\* account appends a "login.fail" event, and every failed register_user,
\* refresh, verify_access_token and require call appends an event too.
C25_FailuresAudited ==
    /\ (last.op = "login" /\ ~last.out.ok
            /\ HadBudget(LoginKey(last.args[1], last.args[3]))) =>
          Recorded({"login.fail"})
    /\ (last.op \in {"register", "refresh", "verify", "require"} /\ ~last.out.ok) =>
          Recorded({audit[i].action : i \in DOMAIN audit})


\* C26: a successful login sets the user's last login to the clock, hands out
\* exactly one new access token and one new refresh token, adds to the user's
\* refresh-token map exactly one entry, the id of the refresh token returned
\* with the expiry now + refresh TTL, changes nothing else of that user or of any
\* other, leaves the user found under its name, id and email, and appends exactly
\* one event, "login.success" for that user.
C26_LoginEffects ==
    (last.op = "login" /\ last.out.ok) =>
        LET uid == last.out.value.user_id
            rid == RefreshId(last.out.value.refresh_token)
            was == pre.users[uid]
        IN /\ users[uid].last_login = Some(now)
           /\ {t.token : t \in issuedAccess \ pre.issuedAccess}
                 = {last.out.value.access_token}
           /\ issuedRefresh \ pre.issuedRefresh = {last.out.value.refresh_token}
           /\ rid \notin DOMAIN was.refresh_tokens
           /\ users = [pre.users EXCEPT ![uid] =
                         [was EXCEPT !.last_login = Some(now),
                                     !.refresh_tokens = (rid :> (now + RefreshTTL)) @@ @]]
           /\ byName[Normal(last.args[1])] = uid /\ byId[uid] = uid
           /\ byEmail[str_lower(users[uid].email)] = uid
           /\ Recorded({"login.success"})
           /\ audit[Len(audit)].username = users[uid].username
           /\ metrics = [pre.metrics EXCEPT !.logins = @ + 1, !.token_issues = @ + 1]

\* A second login, after the clock has moved: the map now holds two ids.
C26_Witness ==
    /\ last.op = "login" /\ last.out.ok
    /\ now > 0
    /\ Cardinality(DOMAIN users[last.out.value.user_id].refresh_tokens) = 2


\* The users that hold the refresh id now
Holders(rid) == {i \in DOMAIN users : rid \in DOMAIN users[i].refresh_tokens}

\* C27: the refresh tokens handed out carry pairwise distinct ids; an id consumed
\* by a rotating refresh is in no user's map afterwards; and an id whose expiry
\* has passed does not stay in the map: at the latest the refresh call that
\* finds its token expired leaves the id in no user's map.
C27_RefreshIdsRemoved ==
    /\ \A t1, t2 \in issuedRefresh : t1 # t2 => RefreshId(t1) # RefreshId(t2)
    /\ (last.op = "refresh" /\ RotateRefreshOnUse /\ last.args[1] \in issuedRefresh
            /\ pre.now <= RefreshExp(last.args[1])) =>
          Holders(RefreshId(last.args[1])) = {}
    /\ (last.op = "refresh" /\ last.args[1] \in issuedRefresh
            /\ pre.now > RefreshExp(last.args[1])) =>
          Holders(RefreshId(last.args[1])) = {}


\* The call presented a refresh token of the service that its user held and that
\* had not expired
ValidRefreshCall ==
    /\ last.op = "refresh"
    /\ last.args[1] \in pre.issuedRefresh
    /\ pre.now <= RefreshExp(last.args[1])
    /\ OwnersWere(RefreshId(last.args[1])) # {}

\* C28: with rotation on, a refresh call that presents a valid refresh token
\* leaves its owner's refresh-token map equal to the map before the call without
\* the consumed id and with one new id, stored with the expiry now + refresh TTL,
\* and returns tokens.
C28_RotationReplacesId ==
    (ValidRefreshCall /\ RotateRefreshOnUse) =>
        /\ last.out.ok
        /\ \A uid \in OwnersWere(RefreshId(last.args[1])) :
              \E new \in DOMAIN users[uid].refresh_tokens \ DOMAIN pre.users[uid].refresh_tokens :
                  users[uid].refresh_tokens
                      = (new :> (now + RefreshTTL))
                            @@ MapRemove(pre.users[uid].refresh_tokens,
                                         RefreshId(last.args[1]))


\* min(C, tokens + elapsed * R) at time t, in units of 1/RefillPeriod token
Refilled(b, t) == Min(b.capacity * RefillPeriod, b.tokens + (t - b.last_refill))

\* C29: every bucket holds between 0 and capacity tokens; and whenever the next
\* check on it is made, now or later, it is admitted exactly when the refilled
\* count is at least one token, an admitted check leaves the refilled count less
\* exactly one token, and a denied check leaves the refilled count itself.
C29_BucketAccounting ==
    \A k \in DOMAIN rlBuckets :
        LET b == rlBuckets[k]
        IN /\ 0 <= b.tokens /\ b.tokens <= b.capacity * RefillPeriod
           /\ \A t \in rlNow..MaxRlTime :
                 LET r == TokenBucket_allow(b, t)
                 IN /\ r.allowed <=> Refilled(b, t) >= RefillPeriod
                    /\ r.bucket.tokens = IF r.allowed THEN Refilled(b, t) - RefillPeriod
                                         ELSE Refilled(b, t)
                    /\ r.bucket.last_refill = t

\* A denied check has left a bucket the fraction of a token it had refilled.
C29_Witness ==
    \E k \in DOMAIN rlBuckets :
        /\ ~rlHist[k].lastOk
        /\ rlBuckets[k].tokens > 0 /\ rlBuckets[k].tokens < RefillPeriod
        /\ rlBuckets[k].last_refill = rlHist[k].lastT


(***************************************************************************)
(* Logins of several usernames from several origins                        *)
(***************************************************************************)
U_a1 == <<"a", ":", "1">>                       \* the username "a:1"
IP_v == <<"1", ":", "2", ":", ":", "3">>        \* the origin 1:2::3
IP_w == <<"2", ":", ":", "3">>                  \* the origin 2::3

OriginUsers == {U_a, U_a1}
OriginIPs == {IP_v, IP_w}
MaxAttempts == 3          \* login calls explored per pair

\* The (username, origin) pair of a login call
Pair(username, ip) == <<_norm_username(username), ip>>

Attempts(pair) == IF pair \in DOMAIN attempts THEN attempts[pair] ELSE 0

LoginOrigins ==
    /\ last = Idle
    /\ \E u \in OriginUsers, p \in LoginPasswords, ip \in OriginIPs :
          /\ Attempts(Pair(u, ip)) < MaxAttempts
          /\ login(u, p, ip)
          /\ attempts' = (Pair(u, ip) :> (Attempts(Pair(u, ip)) + 1)) @@ attempts
    /\ pre' = Snapshot
    /\ UNCHANGED <<codecVars, rlVars, al, th, assigned, took, ledger>>

OriginsNext == RegisterAlice \/ LoginOrigins \/ Return

SpecOrigins == Init /\ [][OriginsNext]_vars

\* The login call was turned away by the rate limiter
Throttled == last.op = "login" /\ audit[Len(audit)].action = "login.rate_limited"

\* C30: a check on a key the limiter has not seen is admitted and leaves a bucket
\* of capacity - 1 tokens; a check on a key changes the bucket of no other key;
\* and, the clock standing still, a login is turned away by the rate limiter
\* only when its own (username, origin) pair has already made as many login
\* calls as the burst allows, whatever other pairs have done.
C30_BucketsPerPair ==
    /\ \A u \in OriginUsers, ip \in OriginIPs :
          LET k == login_key(u, ip)
              r == RateLimiter_check(buckets, LoginBurst, k, now)
          IN /\ \A j \in DOMAIN buckets \ {k} : r.buckets[j] = buckets[j]
             /\ DOMAIN r.buckets = DOMAIN buckets \cup {k}
             /\ k \notin DOMAIN buckets =>
                   /\ r.allowed
                   /\ r.buckets[k].tokens = (LoginBurst - 1) * RefillPeriod
    /\ Throttled => Attempts(Pair(last.args[1], last.args[3])) - 1 >= LoginBurst


(***************************************************************************)
(* Tokens issued while an administrator changes the user's roles and grants*)
(***************************************************************************)
PermRoles == {"admin", "ghost"}        \* "ghost" is no key of DEFAULT_ROLES

AssignRoleAny ==
    /\ last = Idle
    /\ \E r \in PermRoles : assign_role(U_a, r)
    /\ pre' = Snapshot
    /\ UNCHANGED otherVars

PermsNext ==
    RegisterAlice \/ LoginAlice \/ AssignRoleAny \/ GrantPermission \/ Return

SpecPerms == Init /\ [][PermsNext]_vars

\* What a role name contributes to a user's permissions
RolePermissions(r) == IF r \in DOMAIN DEFAULT_ROLES THEN DEFAULT_ROLES[r] ELSE {}

EffectivePermissions(u) == u.permissions \cup UNION {RolePermissions(r) : r \in u.roles}

\* C31: the permission list of the access token a login returns is, without
\* repetition, the union of the direct permissions and of the permissions of the
\* roles that the user record held when the call was made, a role name outside
\* the role table adding nothing; the list follows the record as it is at each
\* issuance.
C31_TokenPermissionsLive ==
    (last.op = "login" /\ last.out.ok) =>
        LET uid == last.out.value.user_id
            claims == TokenCodec_decode(SigningKey, last.out.value.access_token).value
        IN /\ SeqSet(claims.permissions) = EffectivePermissions(pre.users[uid])
           /\ Len(claims.permissions) = Cardinality(EffectivePermissions(pre.users[uid]))
           /\ pre.users[uid].roles = users[uid].roles
           /\ pre.users[uid].permissions = users[uid].permissions

\* A login of a user holding an unknown role, an administrator role and a direct
\* grant, who was handed a token with a shorter list before.
C31_Witness ==
    /\ last.op = "login" /\ last.out.ok
    /\ LET uid == last.out.value.user_id
       IN /\ users[uid].roles = {"user", "admin", "ghost"}
          /\ users[uid].permissions = {"audit:read"}
          /\ \E t \in issuedAccess :
                /\ t.claims.user_id = Some(uid)
                /\ SeqSet(t.claims.permissions) = {"read:self"}
          /\ \E t \in issuedAccess :
                /\ t.token = last.out.value.access_token
                /\ SeqSet(t.claims.permissions) =
                      {"audit:read", "read:any", "read:self", "user:create", "user:delete"}


\* The refresh-token map of every user
RefreshMaps(us) == [i \in DOMAIN us |-> us[i].refresh_tokens]

\* C33: a refresh call that returns no tokens raises TokenError and leaves the
\* refresh-token map of every user as it was before the call.
C33_FailedRefreshAtomic ==
    (last.op = "refresh" /\ ~last.out.ok) =>
        /\ last.out.error = "TokenError"
        /\ RefreshMaps(users) = RefreshMaps(pre.users)


(***************************************************************************)
(* RateLimiter.check called by several threads on one key, the clock       *)
(* standing still                                                          *)
(***************************************************************************)
MaxRounds == 3            \* check calls explored per thread
RaceKey == "k1"

CheckThread0 == [pc |-> "idle", n |-> 0, ok |-> 0]

InitLimiter ==
    /\ SvcInit /\ CodecIdle
    /\ rlBuckets = EmptyMap /\ rlNow = 0 /\ rlHist = EmptyMap
    /\ al = <<>> /\ th = [t \in Threads |-> CheckThread0]
    /\ assigned = <<>> /\ took = 0 /\ attempts = <<>> /\ ledger = Ledger0

limiterFrame == <<svcVars, codecVars, rlNow, rlHist, al, assigned, took, attempts, ledger>>

\* The statements of check and allow that run inside "with self._lock"
CheckSection == {"bucket", "refill", "test", "take", "deny"}

\* self._lock is held by some thread
RateLimiter_locked(threads) == \E t \in DOMAIN threads : threads[t].pc \in CheckSection

\* "with self._lock:", entered
check_acquire(t) ==
    /\ th[t].pc = "idle"
    /\ th[t].n < MaxRounds
    /\ ~RateLimiter_locked(th)
    /\ th' = [th EXCEPT ![t] = [@ EXCEPT !.pc = "bucket", !.n = @ + 1]]
    /\ UNCHANGED <<rlBuckets, limiterFrame>>

\* bucket = self._buckets.get(key), created full and stored if missing
check_bucket(t) ==
    /\ th[t].pc = "bucket"
    /\ rlBuckets' = IF RaceKey \in DOMAIN rlBuckets THEN rlBuckets
                    ELSE (RaceKey :> NewBucket(LoginBurst, rlNow)) @@ rlBuckets
    /\ th' = [th EXCEPT ![t] = [@ EXCEPT !.pc = "refill"]]
    /\ UNCHANGED limiterFrame

\* allow: the refill and the stamp
allow_refill(t) ==
    LET b == rlBuckets[RaceKey]
    IN /\ th[t].pc = "refill"
       /\ rlBuckets' = [rlBuckets EXCEPT ![RaceKey] =
              [b EXCEPT !.tokens = Min(b.capacity * RefillPeriod,
                                       b.tokens + (rlNow - b.last_refill)),
                        !.last_refill = rlNow]]
       /\ th' = [th EXCEPT ![t] = [@ EXCEPT !.pc = "test"]]
       /\ UNCHANGED limiterFrame

\* allow: "if self.tokens >= cost"
allow_test(t) ==
    /\ th[t].pc = "test"
    /\ th' = [th EXCEPT ![t] =
          [@ EXCEPT !.pc = IF rlBuckets[RaceKey].tokens >= RefillPeriod
                           THEN "take" ELSE "deny"]]
    /\ UNCHANGED <<rlBuckets, limiterFrame>>

\* allow: "self.tokens -= cost; return True", and the lock released
allow_take(t) ==
    /\ th[t].pc = "take"
    /\ rlBuckets' = [rlBuckets EXCEPT ![RaceKey].tokens = @ - RefillPeriod]
    /\ th' = [th EXCEPT ![t] = [@ EXCEPT !.pc = "idle", !.ok = @ + 1]]
    /\ UNCHANGED limiterFrame

\* allow: "return False", and the lock released
allow_deny(t) ==
    /\ th[t].pc = "deny"
    /\ th' = [th EXCEPT ![t] = [@ EXCEPT !.pc = "idle"]]
    /\ UNCHANGED <<rlBuckets, limiterFrame>>

CheckAcquire == \E t \in Threads : check_acquire(t)
CheckBucket == \E t \in Threads : check_bucket(t)
AllowRefill == \E t \in Threads : allow_refill(t)
AllowTest == \E t \in Threads : allow_test(t)
AllowTake == \E t \in Threads : allow_take(t)
AllowDeny == \E t \in Threads : allow_deny(t)

LimiterNext ==
    CheckAcquire \/ CheckBucket \/ AllowRefill \/ AllowTest \/ AllowTake \/ AllowDeny

SpecLimiter == InitLimiter /\ [][LimiterNext]_vars

\* The threads inside check
InCheck == {t \in Threads : th[t].pc \in CheckSection}

RECURSIVE SumOver(_, _)
SumOver(f, S) == IF S = {} THEN 0
                 ELSE LET t == CHOOSE x \in S : TRUE IN f[t] + SumOver(f, S \ {t})

\* The check calls that have returned, and those that returned True
ChecksReturned ==
    SumOver([t \in Threads |-> IF th[t].pc = "idle" THEN th[t].n ELSE th[t].n - 1], Threads)

Admitted == SumOver([t \in Threads |-> th[t].ok], Threads)

\* C34: the clock standing still, the check calls that threads make on one key
\* admit, under every interleaving, no more calls than the bucket's capacity in
\* total, and exactly as many as the capacity and the number of calls allow; one
\* bucket is created, and its tokens are the capacity less the admitted calls.
C34_AdmittedWithinCapacity ==
    /\ Admitted <= LoginBurst
    /\ InCheck = {} => Admitted = Min(LoginBurst, ChecksReturned)
    /\ Cardinality(InCheck) <= 1
    /\ RaceKey \in DOMAIN rlBuckets =>
          /\ rlBuckets[RaceKey].tokens >= 0
          /\ InCheck = {} =>
                rlBuckets[RaceKey].tokens = (LoginBurst - Admitted) * RefillPeriod

\* Two threads have each been admitted on the key, and a later call was denied.
C34_Witness ==
    /\ \A t \in Threads : th[t].pc = "idle"
    /\ Cardinality({t \in Threads : th[t].ok >= 1}) >= 2
    /\ Admitted = LoginBurst
    /\ ChecksReturned > LoginBurst


\* The register_user threads that have returned a user
Registrants ==
    {t \in Threads : th[t].op = "register" /\ th[t].pc = "done" /\ \E o \in th[t].out : o.ok}

\* No thread is inside a call
Quiescent == \A t \in Threads : th[t].pc \in {"idle", "done"}

\* C35: when the concurrent calls have ended, metrics.registrations is the number
\* of register_user calls that returned a user, under every interleaving of the
\* threads' reads and writes of the counter.
C35_MetricsExact ==
    Quiescent => metrics.registrations = Cardinality(Registrants)


\* The Google sign-in threads that have returned a login result
SignedIn ==
    {t \in Threads : th[t].op = "google" /\ th[t].pc = "done" /\ \E o \in th[t].out : o.ok}

UserIdOf(t) == (CHOOSE o \in th[t].out : o.ok).value.user_id

\* The threads that called register_user
PasswordCallers == {t \in Threads : th[t].op = "register"}

\* C36: two concurrent Google sign-ins with one and the same verified email end,
\* under every interleaving of find_by_email and the registration, with the same
\* user id, and the repository holds one record with that email.
C36_OneUserPerEmail ==
    \A s, t \in SignedIn :
        (s # t /\ th[s].in[1].email = th[t].in[1].email /\ PasswordCallers = {}) =>
            /\ UserIdOf(s) = UserIdOf(t)
            /\ Cardinality({i \in DOMAIN users :
                   str_lower(users[i].email) = str_lower(th[s].in[1].email)}) = 1


\* The id found under the username of a created user
IdUnder(i) == byName[_norm_username(users[i].username)]

\* C37: under every interleaving of register_user and Google registrations, a
\* username bound to a user record is not bound to a record of another id
\* afterwards: every user created is found under its normalized username, and no
\* two users created carry the same normalized username.
C37_UsernameNeverRebound ==
    /\ \A i \in DOMAIN users :
          /\ _norm_username(users[i].username) \in DOMAIN byName
          /\ IdUnder(i) = i
    /\ \A i, j \in DOMAIN users :
          i # j => _norm_username(users[i].username) # _norm_username(users[j].username)


(***************************************************************************)
(* Ledger (kristof/ledger.py): deposits and transfers on one ledger        *)
(***************************************************************************)
MaxTx == 3                \* transactions posted
HalvesPerUnit == 2        \* amounts are passed in halves of a currency unit

LedgerUsers == {"", "a", "b"}
LedgerAmounts == {-3, 0, 1, 2, 5}        \* -1.5, 0, 0.5, 1, 2.5

\* int(amount): the fraction is dropped, towards zero
python_int(halves) ==
    IF halves >= 0 THEN halves \div HalvesPerUnit ELSE -((-halves) \div HalvesPerUnit)

Transaction(id, to_user, amount, from_user) ==
    [id |-> id, to_user |-> to_user, amount |-> amount, from_user |-> from_user]

\* Ledger.balance for a user that passed _validate_user
Ledger_balance(l, user) == IF user \in DOMAIN l.balances THEN l.balances[user] ELSE 0

Ledger_validate_user(user, field_name) ==
    IF user = "" THEN Err("LedgerError", field_name) ELSE Ok("none")

Ledger_validate_amount(amount) ==
    IF python_int(amount) <= 0 THEN Err("LedgerError", "amount must be > 0") ELSE Ok("none")

\* "self.balance(from_user) < int(amount)"
insufficient(balance, amount) == balance < amount

Ledger_apply(l, tx) ==
    LET debited == IF tx.from_user # {}
                   THEN LET f == CHOOSE u \in tx.from_user : TRUE
                        IN (f :> (Ledger_balance(l, f) - tx.amount)) @@ l.balances
                   ELSE l.balances
        credited == (tx.to_user :>
                        ((IF tx.to_user \in DOMAIN debited THEN debited[tx.to_user] ELSE 0)
                            + tx.amount)) @@ debited
    IN [balances |-> credited, transactions |-> Append(l.transactions, tx)]

\* The outcome and the ledger after deposit(to_user, amount)
Ledger_deposit(l, to_user, amount, id) ==
    LET vu == Ledger_validate_user(to_user, "to_user")
        va == Ledger_validate_amount(amount)
        tx == Transaction(id, to_user, python_int(amount), {})
    IN IF ~vu.ok THEN [ledger |-> l, out |-> vu]
       ELSE IF ~va.ok THEN [ledger |-> l, out |-> va]
       ELSE [ledger |-> Ledger_apply(l, tx), out |-> Ok(tx)]

\* The outcome and the ledger after transfer(from_user, to_user, amount)
Ledger_transfer(l, from_user, to_user, amount, id) ==
    LET vf == Ledger_validate_user(from_user, "from_user")
        vt == Ledger_validate_user(to_user, "to_user")
        va == Ledger_validate_amount(amount)
        tx == Transaction(id, to_user, python_int(amount), {from_user})
    IN IF ~vf.ok THEN [ledger |-> l, out |-> vf]
       ELSE IF ~vt.ok THEN [ledger |-> l, out |-> vt]
       ELSE IF ~va.ok THEN [ledger |-> l, out |-> va]
       ELSE IF from_user = to_user
       THEN [ledger |-> l, out |-> Err("LedgerError", "from_user and to_user must be different")]
       ELSE IF insufficient(Ledger_balance(l, from_user), python_int(amount))
       THEN [ledger |-> l, out |-> Err("InsufficientFundsError", "insufficient funds")]
       ELSE [ledger |-> Ledger_apply(l, tx), out |-> Ok(tx)]

ledgerFrame == <<users, byName, byId, byEmail, nextId, buckets, now, audit, metrics,
                 entropy, issuedAccess, issuedRefresh, scen, codecVars, rlVars,
                 al, th, assigned, took, attempts>>

\* str(uuid4()): the n-th identifier drawn
Uuid(n) == <<"uuid", n>>

Posted == Len(ledger.transactions)

Deposit ==
    \E to_user \in LedgerUsers, amount \in LedgerAmounts :
        LET r == Ledger_deposit(ledger, to_user, amount, Uuid(Posted + 1))
        IN /\ r.out.ok => Posted < MaxTx
           /\ ledger' = r.ledger
           /\ last' = Call("deposit", <<to_user, amount>>, r.out)
           /\ pre' = [ledger |-> ledger]
           /\ UNCHANGED ledgerFrame

Transfer ==
    \E from_user \in LedgerUsers, to_user \in LedgerUsers, amount \in LedgerAmounts :
        LET r == Ledger_transfer(ledger, from_user, to_user, amount, Uuid(Posted + 1))
        IN /\ r.out.ok => Posted < MaxTx
           /\ ledger' = r.ledger
           /\ last' = Call("transfer", <<from_user, to_user, amount>>, r.out)
           /\ pre' = [ledger |-> ledger]
           /\ UNCHANGED ledgerFrame

LedgerNext == Deposit \/ Transfer

SpecLedger == Init /\ [][LedgerNext]_vars

LedgerCall == last.op \in {"deposit", "transfer"}

\* The arguments of the last ledger call
ArgFrom == IF last.op = "transfer" THEN last.args[1] ELSE "none"
ArgTo == IF last.op = "transfer" THEN last.args[2] ELSE last.args[1]
ArgAmount == IF last.op = "transfer" THEN last.args[3] ELSE last.args[2]

\* The call named an empty user, a non-positive amount, or one user twice
Invalid ==
    \/ ArgTo = "" \/ ArgFrom = ""
    \/ ArgAmount <= 0
    \/ ArgFrom = ArgTo

\* The sender's balance when the call was made, in halves
SenderHad == HalvesPerUnit * Ledger_balance(pre.ledger, ArgFrom)

\* LedgerError or a subclass of it
IsLedgerError(out) == ~out.ok /\ out.error \in {"LedgerError", "InsufficientFundsError"}

C39_BalancesNonNegative ==
    /\ \A u \in DOMAIN ledger.balances : ledger.balances[u] >= 0
    /\ \A u \in LedgerUsers \ {""} : Ledger_balance(ledger, u) >= 0

\* A transfer has moved all the sender had.
C39_Witness ==
    /\ last.op = "transfer" /\ last.out.ok
    /\ Ledger_balance(pre.ledger, ArgFrom) > 0
    /\ ArgFrom \in DOMAIN ledger.balances
    /\ ledger.balances[ArgFrom] = 0


\* The positions of the posted transactions
TxIndex == 1..Len(ledger.transactions)

TotalBalance(l) == SumOver(l.balances, DOMAIN l.balances)

\* The amounts of the deposits posted, summed
Deposited ==
    SumOver([i \in TxIndex |-> IF ledger.transactions[i].from_user = {}
                               THEN ledger.transactions[i].amount ELSE 0], TxIndex)

\* What the posted transactions credit to the user, less what they debit
Net(u) ==
    SumOver([i \in TxIndex |->
                LET tx == ledger.transactions[i]
                IN (IF tx.to_user = u THEN tx.amount ELSE 0)
                       - (IF tx.from_user = {u} THEN tx.amount ELSE 0)], TxIndex)

\* C40: the balances sum to the amounts of the deposits posted; a transfer
\* leaves the sum unchanged, taking from the sender what it gives to the
\* receiver; a successful call appends one transaction, the one it returns, and
\* every balance is the net of the posted transactions of its user.
C40_Conservation ==
    /\ TotalBalance(ledger) = Deposited
    /\ \A u \in LedgerUsers \ {""} : Ledger_balance(ledger, u) = Net(u)
    /\ DOMAIN ledger.balances \subseteq LedgerUsers \ {""}
    /\ (LedgerCall /\ last.out.ok) =>
          /\ ledger.transactions = Append(pre.ledger.transactions, last.out.value)
          /\ last.out.value.amount = python_int(ArgAmount)
          /\ \A i \in 1..Len(pre.ledger.transactions) :
                ledger.transactions[i].id # last.out.value.id
    /\ (last.op = "transfer" /\ last.out.ok) =>
          /\ TotalBalance(ledger) = TotalBalance(pre.ledger)
          /\ Ledger_balance(ledger, ArgFrom)
                = Ledger_balance(pre.ledger, ArgFrom) - last.out.value.amount
          /\ Ledger_balance(ledger, ArgTo)
                = Ledger_balance(pre.ledger, ArgTo) + last.out.value.amount
    /\ (last.op = "deposit" /\ last.out.ok) =>
          TotalBalance(ledger) = TotalBalance(pre.ledger) + last.out.value.amount

\* A transfer of part of a balance, between users who both hold money afterwards.
C40_Witness ==
    /\ last.op = "transfer" /\ last.out.ok
    /\ Ledger_balance(ledger, ArgFrom) > 0
    /\ Ledger_balance(ledger, ArgTo) > last.out.value.amount
    /\ Posted = 3


(***************************************************************************)
(* Termination: threads run the service's operations statement by          *)
(* statement, taking and releasing the repository, rate-limiter and audit  *)
(* locks.  Of the repository only what steers the control flow is kept:    *)
(* the username and email indexes and the id counter.                      *)
(***************************************************************************)
\* The callers that run side by side
Callers == {1, 2}

E_by == <<"b", "@", "y", ".", "c", "o">>
U_b1 == <<"b", "1">>

LiveCalls ==
    { [op |-> "register_user", name |-> U_b, email |-> E_b],
      [op |-> "register_user", name |-> U_b1, email |-> E_a],
      [op |-> "login", name |-> U_b, email |-> <<>>],
      [op |-> "refresh", name |-> <<>>, email |-> <<>>],
      [op |-> "verify_access_token", name |-> <<>>, email |-> <<>>],
      [op |-> "require", name |-> <<>>, email |-> <<>>],
      [op |-> "assign_role", name |-> U_b, email |-> <<>>],
      [op |-> "grant_permission", name |-> U_b, email |-> <<>>],
      [op |-> "google", name |-> <<>>, email |-> E_b],
      [op |-> "google", name |-> <<>>, email |-> E_by] }

LiveThread0 ==
    [pc |-> "idle", op |-> "none", holds |-> FALSE, name |-> <<>>, email |-> <<>>,
     n |-> 0, id |-> 0]

InitLive ==
    /\ SvcInit /\ CodecIdle /\ RlIdle
    /\ al = <<>> /\ th = [t \in Callers |-> LiveThread0]
    /\ assigned = <<>> /\ took = 0 /\ attempts = <<>> /\ ledger = Ledger0

liveFrame == <<users, byId, buckets, now, audit, metrics, entropy, issuedAccess,
               issuedRefresh, last, scen, pre, codecVars, rlVars, al, assigned, took,
               attempts, ledger>>

RepoCalls == {"reg.next_id", "reg.add", "login.get", "login.update", "refresh.get",
              "admin.get", "admin.update", "g.find_email", "g.find_name", "g.next_id",
              "g.save", "g.login_save"}
LimiterCalls == {"login.check"}
AuditCalls == {"reg.audit", "login.limited", "login.fail", "login.audit", "admin.audit",
               "g.reg_audit", "g.login_audit"}

\* The lock that the call a thread stands at runs under
LockOf(pc) ==
    IF pc \in RepoCalls THEN "repo"
    ELSE IF pc \in LimiterCalls THEN "limiter"
    ELSE IF pc \in AuditCalls THEN "audit"
    ELSE "none"

\* The threads inside "with self._lock" of the lock
Holders_of(lock) == {t \in Callers : th[t].holds /\ LockOf(th[t].pc) = lock}

\* A thread goes on to its next call; it holds no lock between calls
Goto(t, pc) == [th[t] EXCEPT !.pc = pc, !.holds = FALSE]

\* A caller starts an operation and runs it up to its first locked call
live_begin(t, c) ==
    /\ th[t].pc = "idle"
    /\ \E good \in BOOLEAN :
          th' = [th EXCEPT ![t] =
              [LiveThread0 EXCEPT
                  !.op = c.op, !.name = c.name, !.email = c.email,
                  !.n = IF c.op = "refresh" THEN Cardinality(DOMAIN byName) ELSE 0,
                  !.pc = CASE c.op = "register_user" ->
                                  IF good THEN "reg.next_id" ELSE "done"
                           [] c.op = "login" -> "login.check"
                           [] c.op = "refresh" ->
                                  IF good /\ DOMAIN byName # {} THEN "refresh.get"
                                  ELSE "done"
                           [] c.op \in {"assign_role", "grant_permission"} -> "admin.get"
                           [] c.op = "google" -> IF good THEN "g.find_email" ELSE "done"
                           [] OTHER -> "done"]]
    /\ UNCHANGED <<byName, byEmail, nextId, liveFrame>>

\* "with self._lock:" of the repository, the rate limiter or the audit log
lock_enter(t) ==
    /\ LockOf(th[t].pc) # "none"
    /\ ~th[t].holds
    /\ Holders_of(LockOf(th[t].pc)) = {}
    /\ th' = [th EXCEPT ![t].holds = TRUE]
    /\ UNCHANGED <<byName, byEmail, nextId, liveFrame>>

\* register_user: _next_id, add, audit.record, each under its lock
register_run(t) ==
    /\ th[t].holds
    /\ \/ /\ th[t].pc = "reg.next_id"
          /\ nextId' = nextId + 1
          /\ th' = [th EXCEPT ![t] = [Goto(t, "reg.add") EXCEPT !.id = nextId]]
          /\ UNCHANGED <<byName, byEmail>>
       \/ /\ th[t].pc = "reg.add"
          /\ IF th[t].name \in DOMAIN byName
             THEN /\ th' = [th EXCEPT ![t] = Goto(t, "done")]
                  /\ UNCHANGED <<byName, byEmail>>
             ELSE /\ byName' = (th[t].name :> th[t].id) @@ byName
                  /\ byEmail' = (str_lower(th[t].email) :> th[t].id) @@ byEmail
                  /\ th' = [th EXCEPT ![t] = Goto(t, "reg.audit")]
          /\ UNCHANGED nextId
       \/ /\ th[t].pc = "reg.audit"
          /\ th' = [th EXCEPT ![t] = Goto(t, "sleep")]
          /\ UNCHANGED <<byName, byEmail, nextId>>
    /\ UNCHANGED liveFrame

\* login: rate_limiter.check, repo.get, repo.update, audit.record
login_run(t) ==
    /\ th[t].holds
    /\ \/ /\ th[t].pc = "login.check"
          /\ \E allowed \in BOOLEAN :
                th' = [th EXCEPT ![t] =
                          Goto(t, IF allowed THEN "login.get" ELSE "login.limited")]
       \/ /\ th[t].pc = "login.limited"
          /\ th' = [th EXCEPT ![t] = Goto(t, "done")]
       \/ /\ th[t].pc = "login.get"
          /\ \E verified \in BOOLEAN :
                th' = [th EXCEPT ![t] =
                          Goto(t, IF th[t].name \in DOMAIN byName /\ verified
                                  THEN "login.update" ELSE "login.fail")]
       \/ /\ th[t].pc = "login.update"
          /\ th' = [th EXCEPT ![t] = Goto(t, "login.audit")]
       \/ /\ th[t].pc \in {"login.fail", "login.audit"}
          /\ th' = [th EXCEPT ![t] = Goto(t, "sleep")]
    /\ UNCHANGED <<byName, byEmail, nextId, liveFrame>>

\* refresh: repo.get for each name listed; it raises when the search ends
refresh_run(t) ==
    /\ th[t].holds
    /\ th[t].pc = "refresh.get"
    /\ \E found \in BOOLEAN :
          th' = [th EXCEPT ![t] =
                    IF found \/ th[t].n = 1 THEN Goto(t, "done")
                    ELSE [Goto(t, "refresh.get") EXCEPT !.n = @ - 1]]
    /\ UNCHANGED <<byName, byEmail, nextId, liveFrame>>

\* assign_role and grant_permission: repo.get, repo.update, audit.record
admin_run(t) ==
    /\ th[t].holds
    /\ \/ /\ th[t].pc = "admin.get"
          /\ th' = [th EXCEPT ![t] =
                       Goto(t, IF th[t].name \in DOMAIN byName THEN "admin.update"
                               ELSE "done")]
       \/ /\ th[t].pc = "admin.update"
          /\ th' = [th EXCEPT ![t] = Goto(t, "admin.audit")]
       \/ /\ th[t].pc = "admin.audit"
          /\ th' = [th EXCEPT ![t] = Goto(t, "done")]
    /\ UNCHANGED <<byName, byEmail, nextId, liveFrame>>

\* authenticate_with_code after the provider's answer: find_by_email, the search
\* for a free username, _next_id, save, and the login result
google_run(t) ==
    LET base == SelectSeq(str_lower(local_part(th[t].email)), IsLowerAlnum)
        username == Candidate(base, th[t].n)
    IN /\ th[t].holds
       /\ \/ /\ th[t].pc = "g.find_email"
             /\ th' = [th EXCEPT ![t] =
                   IF str_lower(th[t].email) \in DOMAIN byEmail
                   THEN [Goto(t, "g.login_save") EXCEPT
                            !.id = byEmail[str_lower(th[t].email)]]
                   ELSE Goto(t, "g.find_name")]
             /\ UNCHANGED <<byName, byEmail, nextId>>
          \/ /\ th[t].pc = "g.find_name"
             /\ th' = [th EXCEPT ![t] =
                   IF username \in DOMAIN byName
                   THEN [Goto(t, "g.find_name") EXCEPT !.n = next_counter(@)]
                   ELSE [Goto(t, "g.next_id") EXCEPT !.name = username]]
             /\ UNCHANGED <<byName, byEmail, nextId>>
          \/ /\ th[t].pc = "g.next_id"
             /\ nextId' = nextId + 1
             /\ th' = [th EXCEPT ![t] = [Goto(t, "g.save") EXCEPT !.id = nextId]]
             /\ UNCHANGED <<byName, byEmail>>
          \/ /\ th[t].pc = "g.save"
             /\ byName' = (th[t].name :> th[t].id) @@ byName
             /\ byEmail' = (str_lower(th[t].email) :> th[t].id) @@ byEmail
             /\ th' = [th EXCEPT ![t] = Goto(t, "g.reg_audit")]
             /\ UNCHANGED nextId
          \/ /\ th[t].pc = "g.reg_audit"
             /\ th' = [th EXCEPT ![t] = Goto(t, "g.login_save")]
             /\ UNCHANGED <<byName, byEmail, nextId>>
          \/ /\ th[t].pc = "g.login_save"
             /\ th' = [th EXCEPT ![t] = Goto(t, "g.login_audit")]
             /\ UNCHANGED <<byName, byEmail, nextId>>
          \/ /\ th[t].pc = "g.login_audit"
             /\ th' = [th EXCEPT ![t] = Goto(t, "done")]
             /\ UNCHANGED <<byName, byEmail, nextId>>
       /\ UNCHANGED liveFrame

\* _ensure_min_delay: time.sleep of what is left of the minimum delay, if any
pad_sleep(t) ==
    /\ th[t].pc = "sleep"
    /\ th' = [th EXCEPT ![t] = Goto(t, "done")]
    /\ UNCHANGED <<byName, byEmail, nextId, liveFrame>>

LiveBegin == \E t \in Callers, c \in LiveCalls : live_begin(t, c)
LockEnter == \E t \in Callers : lock_enter(t)
RegisterRun == \E t \in Callers : register_run(t)
LoginRun == \E t \in Callers : login_run(t)
RefreshRun == \E t \in Callers : refresh_run(t)
AdminRun == \E t \in Callers : admin_run(t)
GoogleRun == \E t \in Callers : google_run(t)
PadSleep == \E t \in Callers : pad_sleep(t)

LiveNext ==
    \/ LiveBegin \/ LockEnter \/ RegisterRun \/ LoginRun \/ RefreshRun
    \/ AdminRun \/ GoogleRun \/ PadSleep

\* What a thread inside a call does next
Run(t) ==
    \/ lock_enter(t) \/ register_run(t) \/ login_run(t) \/ refresh_run(t)
    \/ admin_run(t) \/ google_run(t) \/ pad_sleep(t)

\* Every thread that can take a step of its call is scheduled in the end
SpecLive == InitLive /\ [][LiveNext]_vars /\ \A t \in Callers : WF_vars(Run(t))

\* C32: every operation a caller has started ends, by returning or by raising,
\* whatever the other callers do: no thread waits for ever for the repository,
\* rate-limiter or audit lock, and the search for a free username ends.
C32_EveryCallEnds ==
    \A t \in Callers : (th[t].pc # "idle") ~> (th[t].pc = "done")

\* A Google sign-in is in its second turn of the username search and waits for
\* the repository lock, which another caller holds.
C32_Witness ==
    \E s, t \in Callers :
        /\ s # t
        /\ th[t].pc = "g.find_name" /\ th[t].n >= 1 /\ ~th[t].holds
        /\ th[s].holds /\ LockOf(th[s].pc) = "repo"

====
